---- MODULE Spec2Model ----
(***************************************************************************)
(* Model of the geometric decision engine:                                 *)
(*   BettingGeometryEngine  (src/unnamed/part_003)                         *)
(*   BotDecisionInterface   (src/unnamed/part_002)                         *)
(*   MarketTopology         (src/src/sports/visual/MarketTopology.js)      *)
(*                                                                         *)
(* Numbers.  Probabilities, channel values, fractions, strengths and       *)
(* scores are fixed-point thousandths: 1.0 is One = 1000, an edge of 3% is *)
(* 30.  Wall-clock time (Date.now()) is in milliseconds.  A quotient is    *)
(* rounded toward zero at 1/1000; the inputs are drawn from grids on which *)
(* no comparison of the code is decided by that rounding.                  *)
(*                                                                         *)
(* Fields that no operation reads back are left out of the records:        *)
(* geometry.rotations / rotation / timestamp / energy, the rotation of the *)
(* portfolio, cluster centroid and radius, existingExposure of the         *)
(* enriched context, the formatted channels of a decision.                 *)
(***************************************************************************)
EXTENDS Integers, Sequences, FiniteSets, TLC

\* ------------------------------------------------------------------
\* Fixed-point helpers
\* ------------------------------------------------------------------

\* 1.0 in thousandths
One == 1000

Min(a, b) == IF a <= b THEN a ELSE b

Max(a, b) == IF a >= b THEN a ELSE b

Abs(a) == IF a < 0 THEN -a ELSE a

\* Math.min(hi, Math.max(lo, x))
Clamp(x, lo, hi) == Min(hi, Max(lo, x))

\* a / b rounded toward zero (b > 0)
DivT(a, b) == IF a >= 0 THEN a \div b ELSE -((-a) \div b)

\* a * b of two thousandths values, in thousandths
MulF(a, b) == DivT(a * b, One)

RECURSIVE ISqrtIter(_, _, _)
ISqrtIter(n, lo, hi) ==
    IF lo >= hi THEN lo
    ELSE LET mid == (lo + hi + 1) \div 2
         IN IF mid * mid <= n THEN ISqrtIter(n, mid, hi)
            ELSE ISqrtIter(n, lo, mid - 1)

\* floor of the square root (Vec4.magnitude uses Math.sqrt)
ISqrt(n) == ISqrtIter(n, 0, 46340)

\* a / m in thousandths for 0 <= a, 0 < m, by long division (no overflow)
RatioF(a, m) ==
    LET d0 == a \div m
        r0 == a % m
        d1 == (r0 * 10) \div m
        r1 == (r0 * 10) % m
        d2 == (r1 * 10) \div m
        r2 == (r1 * 10) % m
        d3 == (r2 * 10) \div m
    IN d0 * 1000 + d1 * 100 + d2 * 10 + d3

RECURSIVE SumSeq(_)
SumSeq(s) == IF s = <<>> THEN 0 ELSE Head(s) + SumSeq(Tail(s))

\* the last n entries of s (all of s when it is shorter)
LastN(s, n) == IF Len(s) <= n THEN s ELSE SubSeq(s, Len(s) - n + 1, Len(s))

\* a variant of ShiftWhileLonger that drops the newest entries (pop) instead
\* of the oldest
ShiftWhileLongerFromEnd(s, max) == IF Len(s) > max THEN SubSeq(s, 1, max) ELSE s

\* while (s.length > max) s.shift()
RECURSIVE ShiftWhileLonger(_, _)
ShiftWhileLonger(s, max) == IF Len(s) > max THEN ShiftWhileLonger(Tail(s), max) ELSE s

\* insert x into a sequence sorted by descending fraction, after equal ones
RECURSIVE InsertByFraction(_, _)
InsertByFraction(s, x) ==
    IF s = <<>> THEN <<x>>
    ELSE IF x.fraction > Head(s).fraction THEN <<x>> \o s
         ELSE <<Head(s)>> \o InsertByFraction(Tail(s), x)

\* Array.prototype.sort((a, b) => b.fraction - a.fraction): stable, descending
RECURSIVE SortByFraction(_)
SortByFraction(s) ==
    IF s = <<>> THEN <<>>
    ELSE InsertByFraction(SortByFraction(SubSeq(s, 1, Len(s) - 1)), s[Len(s)])

\* ------------------------------------------------------------------
\* BettingGeometryEngine: channels and attractor table
\* ------------------------------------------------------------------

\* BETTING_CHANNELS, as 1-based indices of a channel vector
EDGE == 1
CONFIDENCE == 2
TIME == 3
CORRELATION == 4
EFFICIENCY == 5
MOMENTUM == 6

\* config.channelScales.edge and .time
EdgeScale == 5
TimeScale == 4

\* ATTRACTOR_STATES, keyed as the object is; thresholds in thousandths,
\* the time thresholds in minutes
ATTRACTOR_STATES ==
    [ STABLE_EDGE |->
        [ name |-> "Stable Edge",
          conditions |-> [ edgeMin |-> 30, confidenceMin |-> 650, timeMin |-> 5,
                           correlationMax |-> 500, efficiencyMin |-> 300,
                           momentumMin |-> -10 ],
          action |-> "EXECUTE", kellyMultiplier |-> 1000 ],
      EMERGING_EDGE |->
        [ name |-> "Emerging Edge",
          conditions |-> [ edgeMin |-> 20, confidenceMin |-> 500, timeMin |-> 15,
                           correlationMax |-> 700, efficiencyMin |-> 200,
                           momentumMin |-> 0 ],
          action |-> "PREPARE", kellyMultiplier |-> 500 ],
      CLOSING_WINDOW |->
        [ name |-> "Closing Window",
          conditions |-> [ edgeMin |-> 20, confidenceMin |-> 550, timeMax |-> 5,
                           correlationMax |-> 600, efficiencyMin |-> 200,
                           momentumMin |-> -20 ],
          action |-> "EXECUTE", kellyMultiplier |-> 750 ],
      CORRELATED_CLUSTER |->
        [ name |-> "Correlated Cluster",
          conditions |-> [ edgeMin |-> 25, confidenceMin |-> 550,
                           correlationMin |-> 500 ],
          action |-> "REDUCE", kellyMultiplier |-> 500 ],
      EFFICIENT_MARKET |->
        [ name |-> "Efficient Market",
          conditions |-> [ efficiencyMax |-> 150 ],
          action |-> "PASS", kellyMultiplier |-> 0 ],
      DECAYING_EDGE |->
        [ name |-> "Decaying Edge",
          conditions |-> [ momentumMax |-> -20 ],
          action |-> "PASS", kellyMultiplier |-> 0 ],
      UNSTABLE_CHAOS |->
        [ name |-> "Unstable Chaos",
          conditions |-> [ confidenceMax |-> 400 ],
          action |-> "WAIT", kellyMultiplier |-> 0 ] ]

\* Object.entries(ATTRACTOR_STATES): the keys in declaration order
AttractorOrder ==
    << "STABLE_EDGE", "EMERGING_EDGE", "CLOSING_WINDOW", "CORRELATED_CLUSTER",
       "EFFICIENT_MARKET", "DECAYING_EDGE", "UNSTABLE_CHAOS" >>

\* currentAttractor = null
NoAttractor == "null"

\* exp(-m / 20) in thousandths, tabulated at the minutes the model uses
ExpNeg20(m) ==
    CASE m = -10 -> 1649
      [] m = 0  -> 1000
      [] m = 3  -> 861
      [] m = 5  -> 779
      [] m = 15 -> 472
      [] m = 30 -> 223
      [] m = 60 -> 50

\* _calculateChannels; previousEdge is <<>> for null, <<e>> otherwise
CalculateChannels(modelProb, impliedProb, confidence, minutesToClose, correlatedExposure, marketVolatility, previousEdge) ==
    LET edge == modelProb - impliedProb
        momentum ==
            IF previousEdge = <<>> THEN 500
            ELSE Clamp(500 + (edge - previousEdge[1]) * 10, 0, One)
    IN << Clamp(edge * EdgeScale, 0, One),
          One - Min(One, confidence),
          Min(One, ExpNeg20(minutesToClose) * TimeScale),
          Min(One, correlatedExposure),
          Min(One, marketVolatility),
          momentum >>

\* _channelsToPosition
ChannelsToPosition(channels) ==
    << (channels[EDGE] - 500) * 2,
       (channels[CONFIDENCE] - 500) * 2,
       (channels[TIME] - 500) * 2,
       (channels[EFFICIENCY] - 500) * 2 >>

\* Vec4.dot
Dot(a, b) == a[1] * b[1] + a[2] * b[2] + a[3] * b[3] + a[4] * b[4]

\* Vec4.magnitude
Magnitude(a) == ISqrt(Dot(a, a))

\* this.portfolioGeometry = null
NoPortfolio == [isNull |-> TRUE]

\* cosine of one pair of positions as _updatePortfolioGeometry adds it to
\* alignmentSum: dot / mag when mag > 0, nothing otherwise
PairAlignment(p, q) ==
    LET mag == Magnitude(p) * Magnitude(q)
        dot == Dot(p, q)
    IN IF mag > 0
       THEN (IF dot >= 0 THEN RatioF(dot, mag) ELSE -RatioF(-dot, mag))
       ELSE 0

\* the double loop over i < j of _updatePortfolioGeometry
RECURSIVE AlignmentSum(_, _, _)
AlignmentSum(positions, i, j) ==
    IF i > Len(positions) THEN 0
    ELSE IF j > Len(positions) THEN AlignmentSum(positions, i + 1, i + 2)
    ELSE PairAlignment(positions[i], positions[j]) + AlignmentSum(positions, i, j + 1)

\* _updatePortfolioGeometry: the aggregate of the active opportunities
UpdatePortfolioGeometry(opps) ==
    IF Len(opps) = 0 THEN NoPortfolio
    ELSE
      LET count == Len(opps)
          combinedChannels ==
              [c \in 1..6 |-> DivT(SumSeq([k \in 1..count |-> opps[k].channels[c]]), count)]
          combinedPosition ==
              [d \in 1..4 |-> DivT(SumSeq([k \in 1..count |-> opps[k].position[d]]), count)]
          positions == [k \in 1..count |-> opps[k].position]
          pairs == (count * (count - 1)) \div 2
          crystallization ==
              IF count > 1 /\ pairs > 0
              THEN DivT(AlignmentSum(positions, 1, 2), pairs)
              ELSE 0
      IN [ position |-> combinedPosition,
           channels |-> combinedChannels,
           energy |-> Magnitude(combinedPosition),
           crystallization |-> crystallization,
           opportunityCount |-> count ]

\* -20 * ln(timeChannel / scale + 0.01) >= minutes, decided on the argument of
\* the logarithm: ln is increasing, so the test is
\* timeChannel / scale + 0.01 <= exp(-minutes / 20)
TimeValueAtLeast(timeChannel, minutes) ==
    timeChannel + 10 * TimeScale <= ExpNeg20(minutes) * TimeScale

\* -20 * ln(timeChannel / scale + 0.01) <= minutes
TimeValueAtMost(timeChannel, minutes) ==
    timeChannel + 10 * TimeScale >= ExpNeg20(minutes) * TimeScale

\* one condition of _matchAttractor on the unscaled channel value
ConditionHolds(channels, key, threshold) ==
    CASE key = "edgeMin" -> channels[EDGE] >= threshold * EdgeScale
      [] key = "edgeMax" -> channels[EDGE] <= threshold * EdgeScale
      [] key = "confidenceMin" -> One - channels[CONFIDENCE] >= threshold
      [] key = "confidenceMax" -> One - channels[CONFIDENCE] <= threshold
      [] key = "timeMin" -> TimeValueAtLeast(channels[TIME], threshold)
      [] key = "timeMax" -> TimeValueAtMost(channels[TIME], threshold)
      [] key = "correlationMax" -> channels[CORRELATION] <= threshold
      [] key = "correlationMin" -> channels[CORRELATION] >= threshold
      [] key = "efficiencyMin" -> channels[EFFICIENCY] >= threshold
      [] key = "efficiencyMax" -> channels[EFFICIENCY] <= threshold
      [] key = "momentumMin" -> channels[MOMENTUM] - 500 >= threshold * 5
      [] key = "momentumMax" -> channels[MOMENTUM] - 500 <= threshold * 5

\* the condition keys _matchAttractor looks at
ConditionKeys ==
    { "edgeMin", "edgeMax", "confidenceMin", "confidenceMax", "timeMin", "timeMax",
      "correlationMax", "correlationMin", "efficiencyMin", "efficiencyMax",
      "momentumMin", "momentumMax" }

\* _matchAttractor: matches / total in thousandths, 0 when total = 0
MatchAttractor(channels, conditions) ==
    LET present == DOMAIN conditions \cap ConditionKeys
        total == Cardinality(present)
        matches == Cardinality({k \in present : ConditionHolds(channels, k, conditions[k])})
    IN IF total > 0 THEN (matches * One) \div total ELSE 0

\* a variant of BestMatchFrom in which an equally strong later entry replaces
\* the best one
RECURSIVE BestMatchFromLast(_, _, _, _)
BestMatchFromLast(channels, i, bestMatch, bestStrength) ==
    IF i > Len(AttractorOrder) THEN [match |-> bestMatch, strength |-> bestStrength]
    ELSE LET key == AttractorOrder[i]
             strength == MatchAttractor(channels, ATTRACTOR_STATES[key].conditions)
         IN IF strength >= bestStrength
            THEN BestMatchFromLast(channels, i + 1, key, strength)
            ELSE BestMatchFromLast(channels, i + 1, bestMatch, bestStrength)

\* the loop of _detectAttractor from entry i on: a strictly stronger entry
\* replaces the best one
RECURSIVE BestMatchFrom(_, _, _, _)
BestMatchFrom(channels, i, bestMatch, bestStrength) ==
    IF i > Len(AttractorOrder) THEN [match |-> bestMatch, strength |-> bestStrength]
    ELSE LET key == AttractorOrder[i]
             strength == MatchAttractor(channels, ATTRACTOR_STATES[key].conditions)
         IN IF strength > bestStrength
            THEN BestMatchFrom(channels, i + 1, key, strength)
            ELSE BestMatchFrom(channels, i + 1, bestMatch, bestStrength)

\* _detectAttractor.  e.changes collects the onAttractorChange calls made
\* during the running operation (the callback is installed by the
\* BotDecisionInterface constructor).
DetectAttractor(e) ==
    IF e.portfolioGeometry = NoPortfolio
    THEN [e EXCEPT !.currentAttractor = "UNSTABLE_CHAOS", !.attractorStrength = 0]
    ELSE LET best == BestMatchFrom(e.portfolioGeometry.channels, 1, NoAttractor, 0)
         IN [e EXCEPT !.currentAttractor = best.match,
                      !.attractorStrength = best.strength,
                      !.changes =
                          IF best.match # e.currentAttractor
                          THEN Append(@, [to |-> best.match, strength |-> best.strength,
                                          from |-> e.currentAttractor])
                          ELSE @]

\* Map.set(gameId, geometry): replace in place, or append
MapSet(opps, geometry) ==
    IF \E k \in 1..Len(opps) : opps[k].gameId = geometry.gameId
    THEN [k \in 1..Len(opps) |->
             IF opps[k].gameId = geometry.gameId THEN geometry ELSE opps[k]]
    ELSE Append(opps, geometry)

\* history.shift() while history[0].time < cutoff
RECURSIVE DropOlder(_, _)
DropOlder(history, cutoff) ==
    IF Len(history) > 0 /\ history[1].time < cutoff
    THEN DropOlder(Tail(history), cutoff)
    ELSE history

\* _updateEdgeHistory: push, then keep the last 60 seconds
UpdateEdgeHistory(edgeHistory, gameId, currentEdge, t) ==
    [edgeHistory EXCEPT ![gameId] =
        DropOlder(Append(@, [edge |-> currentEdge, time |-> t]), t - 60000)]

\* _getPreviousEdge: <<>> for null
GetPreviousEdge(e, gameId) ==
    LET history == e.edgeHistory[gameId]
    IN IF Len(history) < 2 THEN <<>>
       ELSE << DivT(history[Len(history) - 1].edge, EdgeScale) >>

\* processOpportunity at time t
ProcessOpportunity(e, opp, ctx, previousEdge, t) ==
    LET channels == CalculateChannels(opp.modelProb, opp.impliedProb, opp.confidence, ctx.minutesToClose, ctx.correlatedExposure, ctx.marketVolatility, previousEdge)
        geometry == [ gameId |-> opp.gameId, channels |-> channels,
                      position |-> ChannelsToPosition(channels), opportunity |-> opp ]
        opps == MapSet(e.opportunities, geometry)
        e1 == [e EXCEPT !.opportunities = opps,
                        !.edgeHistory = UpdateEdgeHistory(@, opp.gameId, channels[EDGE], t),
                        !.portfolioGeometry = UpdatePortfolioGeometry(opps)]
    IN DetectAttractor(e1)

\* the loop of updateOpportunities
RECURSIVE ProcessAll(_, _, _, _)
ProcessAll(e, opportunities, ctx, t) ==
    IF opportunities = <<>> THEN e
    ELSE LET opp == Head(opportunities)
         IN ProcessAll(ProcessOpportunity(e, opp, ctx, GetPreviousEdge(e, opp.gameId), t),
                       Tail(opportunities), ctx, t)

\* 0.05 and 0.001 as fractions of the bankroll, in millionths
MaxBetFraction == 50000
MinFraction == 1000

\* a variant of EngineAllocations without the cap at 5%
EngineAllocationsUncapped(e) ==
    IF e.currentAttractor = NoAttractor THEN <<>>
    ELSE
      LET kellyMult == ATTRACTOR_STATES[e.currentAttractor].kellyMultiplier
          Alloc(geom) ==
              LET edgeStrength == DivT(geom.channels[EDGE], EdgeScale)
                  confMult == One - DivT(geom.channels[CONFIDENCE] * 5, 10)
                  corrPenalty == One - DivT(geom.channels[CORRELATION] * 3, 10)
              IN [ gameId |-> geom.gameId,
                   fraction |-> MulF(MulF(edgeStrength * kellyMult, confMult), corrPenalty),
                   edge |-> edgeStrength,
                   confidence |-> One - geom.channels[CONFIDENCE] ]
      IN SortByFraction([k \in 1..Len(e.opportunities) |-> Alloc(e.opportunities[k])])

\* _calculateAllocations of the engine; fractions in millionths
EngineAllocations(e) ==
    IF e.currentAttractor = NoAttractor THEN <<>>
    ELSE
      LET kellyMult == ATTRACTOR_STATES[e.currentAttractor].kellyMultiplier
          Alloc(geom) ==
              LET edgeStrength == DivT(geom.channels[EDGE], EdgeScale)
                  confMult == One - DivT(geom.channels[CONFIDENCE] * 5, 10)
                  corrPenalty == One - DivT(geom.channels[CORRELATION] * 3, 10)
                  fraction == MulF(MulF(edgeStrength * kellyMult, confMult), corrPenalty)
              IN [ gameId |-> geom.gameId,
                   fraction |-> Min(MaxBetFraction, Max(0, fraction)),
                   edge |-> edgeStrength,
                   confidence |-> One - geom.channels[CONFIDENCE] ]
      IN SortByFraction([k \in 1..Len(e.opportunities) |-> Alloc(e.opportunities[k])])

\* queryGeometricState.  available = FALSE is the 'No geometry available'
\* answer, whose attractor, attractorStrength and crystallization are
\* undefined (held as "undefined" and 0 and never read).
QueryGeometricState(e) ==
    IF e.currentAttractor = NoAttractor \/ e.portfolioGeometry = NoPortfolio
    THEN [ available |-> FALSE, executable |-> FALSE, action |-> "WAIT",
           attractor |-> "undefined", attractorStrength |-> 0, confidence |-> 0,
           crystallization |-> 0, portfolioEnergy |-> 0, allocations |-> <<>> ]
    ELSE [ available |-> TRUE,
           executable |-> ATTRACTOR_STATES[e.currentAttractor].action \in {"EXECUTE", "REDUCE"},
           action |-> ATTRACTOR_STATES[e.currentAttractor].action,
           attractor |-> ATTRACTOR_STATES[e.currentAttractor].name,
           attractorStrength |-> e.attractorStrength,
           confidence |-> MulF(MulF(e.portfolioGeometry.crystallization, e.attractorStrength),
                               One - e.portfolioGeometry.channels[CONFIDENCE]),
           crystallization |-> e.portfolioGeometry.crystallization,
           portfolioEnergy |-> e.portfolioGeometry.energy,
           allocations |-> EngineAllocations(e) ]

\* removeOpportunity of the engine
EngineRemoveOpportunity(e, gameId) ==
    LET kept == SelectSeq(e.opportunities, LAMBDA g : g.gameId # gameId)
    IN DetectAttractor([e EXCEPT !.opportunities = kept,
                                 !.edgeHistory = [@ EXCEPT ![gameId] = <<>>],
                                 !.portfolioGeometry = UpdatePortfolioGeometry(kept)])

\* clear of the engine
EngineClear(e) ==
    [e EXCEPT !.opportunities = <<>>,
              !.edgeHistory = [g \in DOMAIN @ |-> <<>>],
              !.portfolioGeometry = NoPortfolio,
              !.currentAttractor = NoAttractor,
              !.attractorStrength = 0]

\* ------------------------------------------------------------------
\* MarketTopology
\* ------------------------------------------------------------------

\* MarketTopology config (constructor defaults)
maxSnapshots == 120
minPersistence == 10
edgeThreshold == 20
clusterEpsilon == 150
minClusterSize == 2

\* PersistencePoint.death of a feature that is still alive
Infinity == 2000000000

\* PersistencePoint.persistence
Persistence(point) ==
    IF point.death = Infinity THEN Infinity ELSE point.death - point.birth

\* new Map() filled by set(gameId, value) for each entry in turn: a repeated
\* gameId keeps its first place and takes the later value
RECURSIVE MapFromEntries(_)
MapFromEntries(entries) ==
    IF entries = <<>> THEN <<>>
    ELSE LET rest == MapFromEntries(SubSeq(entries, 1, Len(entries) - 1))
             entry == entries[Len(entries)]
         IN IF \E k \in 1..Len(rest) : rest[k].gameId = entry.gameId
            THEN [k \in 1..Len(rest) |->
                     IF rest[k].gameId = entry.gameId THEN entry ELSE rest[k]]
            ELSE Append(rest, entry)

\* Map.has
MapHas(map, gameId) == \E k \in 1..Len(map) : map[k].gameId = gameId

\* Map.get of a key the map has
MapGet(map, gameId) == map[CHOOSE k \in 1..Len(map) : map[k].gameId = gameId].value

\* new MarketSnapshot(timestamp, opportunities)
MarketSnapshot(timestamp, opportunities) ==
    [ timestamp |-> timestamp,
      opportunities |-> opportunities,
      edges |-> MapFromEntries([k \in 1..Len(opportunities) |->
                   [ gameId |-> opportunities[k].gameId,
                     value |-> opportunities[k].modelProb - opportunities[k].impliedProb ]]),
      positions |-> MapFromEntries([k \in 1..Len(opportunities) |->
                   [ gameId |-> opportunities[k].gameId,
                     value |-> << opportunities[k].modelProb - 500,
                                  opportunities[k].impliedProb - 500,
                                  (IF opportunities[k].confidence = 0 THEN 500
                                   ELSE opportunities[k].confidence) - 500,
                                  0 >> ]]) ]

\* a variant of PersistenceLoop in which a feature that stays at or above
\* the threshold is born again at every snapshot
RECURSIVE PersistenceLoopReborn(_, _, _, _)
PersistenceLoopReborn(t, edges, i, normalizedTime) ==
    IF i > Len(edges) THEN t
    ELSE
      LET gameId == edges[i].gameId
          edge == edges[i].value
          active == \E k \in 1..Len(t.activeFeatures) :
                        t.activeFeatures[k].feature.gameId = gameId
          t1 ==
            IF edge >= edgeThreshold
            THEN IF ~active
                 THEN [t EXCEPT !.activeFeatures =
                         Append(@, [ birth |-> normalizedTime, death |-> Infinity,
                                     dimension |-> 0,
                                     feature |-> [ gameId |-> gameId, type |-> "edge",
                                                   initialEdge |-> edge ] ])]
                 ELSE [t EXCEPT !.activeFeatures =
                         [k \in 1..Len(@) |->
                             IF @[k].feature.gameId = gameId
                             THEN [@[k] EXCEPT !.birth = normalizedTime] ELSE @[k]]]
            ELSE IF active
                 THEN LET old == CHOOSE p \in {t.activeFeatures[k] : k \in 1..Len(t.activeFeatures)} :
                                     p.feature.gameId = gameId
                          point == [old EXCEPT !.death = normalizedTime]
                      IN [t EXCEPT !.persistenceDiagram =
                                      IF Persistence(point) >= minPersistence
                                      THEN Append(@, point) ELSE @,
                                   !.activeFeatures =
                                      SelectSeq(@, LAMBDA p : p.feature.gameId # gameId)]
                 ELSE t
      IN PersistenceLoopReborn(t1, edges, i + 1, normalizedTime)

\* a variant of PersistenceLoop that puts every finalized point in the
\* diagram, whatever its persistence
RECURSIVE PersistenceLoopUnfiltered(_, _, _, _)
PersistenceLoopUnfiltered(t, edges, i, normalizedTime) ==
    IF i > Len(edges) THEN t
    ELSE
      LET gameId == edges[i].gameId
          edge == edges[i].value
          active == \E k \in 1..Len(t.activeFeatures) :
                        t.activeFeatures[k].feature.gameId = gameId
          t1 ==
            IF edge >= edgeThreshold
            THEN IF ~active
                 THEN [t EXCEPT !.activeFeatures =
                         Append(@, [ birth |-> normalizedTime, death |-> Infinity,
                                     dimension |-> 0,
                                     feature |-> [ gameId |-> gameId, type |-> "edge",
                                                   initialEdge |-> edge ] ])]
                 ELSE t
            ELSE IF active
                 THEN LET old == CHOOSE p \in {t.activeFeatures[k] : k \in 1..Len(t.activeFeatures)} :
                                     p.feature.gameId = gameId
                          point == [old EXCEPT !.death = normalizedTime]
                      IN [t EXCEPT !.persistenceDiagram = Append(@, point),
                                   !.activeFeatures =
                                      SelectSeq(@, LAMBDA p : p.feature.gameId # gameId)]
                 ELSE t
      IN PersistenceLoopUnfiltered(t1, edges, i + 1, normalizedTime)

\* the loop of _updatePersistence over snapshot.edges from entry i on;
\* t carries activeFeatures and persistenceDiagram
RECURSIVE PersistenceLoop(_, _, _, _)
PersistenceLoop(t, edges, i, normalizedTime) ==
    IF i > Len(edges) THEN t
    ELSE
      LET gameId == edges[i].gameId
          edge == edges[i].value
          active == \E k \in 1..Len(t.activeFeatures) :
                        t.activeFeatures[k].feature.gameId = gameId
          t1 ==
            IF edge >= edgeThreshold
            THEN IF ~active
                 THEN [t EXCEPT !.activeFeatures =
                         Append(@, [ birth |-> normalizedTime, death |-> Infinity,
                                     dimension |-> 0,
                                     feature |-> [ gameId |-> gameId, type |-> "edge",
                                                   initialEdge |-> edge ] ])]
                 ELSE t
            ELSE IF active
                 THEN LET old == CHOOSE p \in {t.activeFeatures[k] : k \in 1..Len(t.activeFeatures)} :
                                     p.feature.gameId = gameId
                          point == [old EXCEPT !.death = normalizedTime]
                      IN [t EXCEPT !.persistenceDiagram =
                                      IF Persistence(point) >= minPersistence
                                      THEN Append(@, point) ELSE @,
                                   !.activeFeatures =
                                      SelectSeq(@, LAMBDA p : p.feature.gameId # gameId)]
                 ELSE t
      IN PersistenceLoop(t1, edges, i + 1, normalizedTime)

\* normalizedTime of _updatePersistence, in thousandths
NormalizedTime(t, snapshot) ==
    LET currentTime == snapshot.timestamp
        birthTime == IF Len(t.snapshots) > 0 THEN t.snapshots[1].timestamp ELSE currentTime
    IN RatioF(currentTime - birthTime, Max(1, currentTime - birthTime))

\* a variant of UpdatePersistence that finalizes the active features of the
\* games the snapshot does not contain
UpdatePersistenceExpiring(t, snapshot) ==
    LET normalizedTime == NormalizedTime(t, snapshot)
        t1 == PersistenceLoop(t, snapshot.edges, 1, normalizedTime)
        cutoffTime == normalizedTime - 500
    IN [t1 EXCEPT !.persistenceDiagram =
                      SelectSeq(@, LAMBDA p : p.death > cutoffTime \/ p.death = Infinity),
                  !.activeFeatures =
                      SelectSeq(@, LAMBDA p : MapHas(snapshot.edges, p.feature.gameId))]

\* _updatePersistence
UpdatePersistence(t, snapshot) ==
    LET normalizedTime == NormalizedTime(t, snapshot)
        t1 == PersistenceLoop(t, snapshot.edges, 1, normalizedTime)
        cutoffTime == normalizedTime - 500
    IN [t1 EXCEPT !.persistenceDiagram =
           SelectSeq(@, LAMBDA p : p.death > cutoffTime \/ p.death = Infinity)]

\* squared distance of two positions (thousandths squared)
DistanceSq(p, q) ==
    (p[1] - q[1]) * (p[1] - q[1]) + (p[2] - q[2]) * (p[2] - q[2])
    + (p[3] - q[3]) * (p[3] - q[3]) + (p[4] - q[4]) * (p[4] - q[4])

\* the indices the BFS of _detectClusters reaches from the set `seen`
RECURSIVE Reach(_, _)
Reach(positions, seen) ==
    LET next == seen \cup
            { j \in 1..Len(positions) :
                \E i \in seen : DistanceSq(positions[i].value, positions[j].value)
                                    < clusterEpsilon * clusterEpsilon }
    IN IF next = seen THEN seen ELSE Reach(positions, next)

\* the outer loop of _detectClusters from index i on.  A cluster keeps its
\* gameIds (as a set: only membership and the edges of the members are read)
\* and its size.
RECURSIVE ClusterLoop(_, _, _)
ClusterLoop(positions, i, visited) ==
    IF i > Len(positions) THEN <<>>
    ELSE IF i \in visited THEN ClusterLoop(positions, i + 1, visited)
    ELSE LET members == Reach(positions, {i})
             rest == ClusterLoop(positions, i + 1, visited \cup members)
         IN IF Cardinality(members) >= minClusterSize
            THEN << [ gameIds |-> {positions[m].gameId : m \in members},
                      size |-> Cardinality(members) ] >> \o rest
            ELSE rest

\* _detectClusters
DetectClusters(snapshot) ==
    IF Len(snapshot.positions) < minClusterSize THEN <<>>
    ELSE ClusterLoop(snapshot.positions, 1, {})

\* snapshot.edges.get(id) || 0
EdgeOrZero(snapshot, gameId) ==
    IF MapHas(snapshot.edges, gameId) THEN MapGet(snapshot.edges, gameId) ELSE 0

RECURSIVE SumOver(_, _)
SumOver(set, f) ==
    IF set = {} THEN 0
    ELSE LET x == CHOOSE y \in set : TRUE IN f[x] + SumOver(set \ {x}, f)

\* variance of the member edges of a cluster, in thousandths squared
ClusterVariance(snapshot, cluster) ==
    LET n == Cardinality(cluster.gameIds)
        e == [g \in cluster.gameIds |-> EdgeOrZero(snapshot, g)]
        sum == SumOver(cluster.gameIds, e)
        sumSq == SumOver(cluster.gameIds, [g \in cluster.gameIds |-> e[g] * e[g]])
    IN DivT(n * sumSq - sum * sum, n * n)

\* method 1 of _detectHoles
ClusterHoles(snapshot, clusters) ==
    LET big == SelectSeq(clusters, LAMBDA c :
                   c.size >= 3 /\ ClusterVariance(snapshot, c) > 1000)
    IN [k \in 1..Len(big) |->
          [ type |-> "cluster_variance", games |-> big[k].gameIds,
            significance |-> Min(One, DivT(ClusterVariance(snapshot, big[k]), 10)) ]]

\* method 2 of _detectHoles
VanishingHoles(persistenceDiagram) ==
    LET quick == SelectSeq(persistenceDiagram, LAMBDA p :
                     Persistence(p) < 100 /\ p.feature.initialEdge > 50)
    IN [k \in 1..Len(quick) |->
          [ type |-> "vanishing_edge", games |-> {quick[k].feature.gameId},
            significance |->
                LET persistence == Persistence(quick[k])
                    initialEdge == quick[k].feature.initialEdge
                IN IF persistence = 0 THEN Infinity
                   ELSE IF persistence > 0 THEN RatioF(initialEdge, persistence)
                   ELSE -RatioF(initialEdge, -persistence) ]]

\* method 3 of _detectHoles: the loops over i < j of snapshot.opportunities
RECURSIVE OpposingHoles(_, _, _)
OpposingHoles(snapshot, i, j) ==
    LET opps == snapshot.opportunities
    IN IF i > Len(opps) THEN <<>>
       ELSE IF j > Len(opps) THEN OpposingHoles(snapshot, i + 1, i + 2)
       ELSE LET edgeI == EdgeOrZero(snapshot, opps[i].gameId)
                edgeJ == EdgeOrZero(snapshot, opps[j].gameId)
                rest == OpposingHoles(snapshot, i, j + 1)
            IN IF edgeI * edgeJ < 0 /\ Abs(edgeI) > 20 /\ Abs(edgeJ) > 20
               THEN << [ type |-> "opposing_edges",
                         games |-> {opps[i].gameId, opps[j].gameId},
                         significance |-> Abs(edgeI - edgeJ) ] >> \o rest
               ELSE rest

\* insert x into a sequence sorted by descending significance, after equal ones
RECURSIVE InsertBySignificance(_, _)
InsertBySignificance(s, x) ==
    IF s = <<>> THEN <<x>>
    ELSE IF x.significance > Head(s).significance THEN <<x>> \o s
         ELSE <<Head(s)>> \o InsertBySignificance(Tail(s), x)

\* this.holes.sort((a, b) => b.significance - a.significance)
RECURSIVE SortBySignificance(_)
SortBySignificance(s) ==
    IF s = <<>> THEN <<>>
    ELSE InsertBySignificance(SortBySignificance(SubSeq(s, 1, Len(s) - 1)), s[Len(s)])

\* _detectHoles
DetectHoles(t, snapshot) ==
    SortBySignificance(
        ClusterHoles(snapshot, t.clusters)
        \o VanishingHoles(t.persistenceDiagram)
        \o (IF Len(snapshot.opportunities) >= 2 THEN OpposingHoles(snapshot, 1, 2) ELSE <<>>))

\* addSnapshot at time `timestamp`, with _updateTopology
AddSnapshot(t, opportunities, timestamp) ==
    LET snapshot == MarketSnapshot(timestamp, opportunities)
        t1 == [t EXCEPT !.snapshots = ShiftWhileLonger(Append(@, snapshot), maxSnapshots)]
        t2 == UpdatePersistence(t1, snapshot)
        t3 == [t2 EXCEPT !.clusters = DetectClusters(snapshot)]
    IN [t3 EXCEPT !.holes = DetectHoles(t3, snapshot)]

\* _calculateBettiNumbers
CalculateBettiNumbers(t) ==
    [ beta0 |-> Len(t.clusters) +
                (IF Len(t.snapshots) > 0
                 THEN LET opps == t.snapshots[Len(t.snapshots)].opportunities
                      IN Cardinality({k \in 1..Len(opps) :
                             ~\E c \in 1..Len(t.clusters) :
                                 opps[k].gameId \in t.clusters[c].gameIds})
                 ELSE 0),
      beta1 |-> Len(SelectSeq(t.persistenceDiagram, LAMBDA p : p.dimension = 1)),
      beta2 |-> Len(t.holes) ]

\* getComplexityScore, in thousandths
GetComplexityScore(t) ==
    LET betti == CalculateBettiNumbers(t)
        n == IF Len(t.snapshots) > 0
             THEN Len(t.snapshots[Len(t.snapshots)].opportunities) ELSE 1
    IN Min(One, DivT(betti.beta0 * 300 + betti.beta1 * 500 + betti.beta2 * 200, Max(1, n)))

\* getStabilityScore, in thousandths
GetStabilityScore(t) ==
    IF Len(t.activeFeatures) = 0 THEN 0
    ELSE DivT(SumSeq([k \in 1..Len(t.activeFeatures) |-> One - t.activeFeatures[k].birth]),
              Len(t.activeFeatures))

\* the sort key of getMostPersistentEdges: 1000 for a feature that is alive
PersistenceKey(point) ==
    IF Persistence(point) = Infinity THEN 1000 * One ELSE Persistence(point)

\* insert x into a sequence sorted by descending persistence, after equal ones
RECURSIVE InsertByPersistence(_, _)
InsertByPersistence(s, x) ==
    IF s = <<>> THEN <<x>>
    ELSE IF PersistenceKey(x) > PersistenceKey(Head(s)) THEN <<x>> \o s
         ELSE <<Head(s)>> \o InsertByPersistence(Tail(s), x)

\* all.sort((a, b) => pb - pa)
RECURSIVE SortByPersistence(_)
SortByPersistence(s) ==
    IF s = <<>> THEN <<>>
    ELSE InsertByPersistence(SortByPersistence(SubSeq(s, 1, Len(s) - 1)), s[Len(s)])

\* getMostPersistentEdges(limit)
GetMostPersistentEdges(t, limit) ==
    LET all == t.activeFeatures \o t.persistenceDiagram
        edges == SelectSeq(all, LAMBDA p : p.dimension = 0 /\ p.feature.type = "edge")
        sorted == SortByPersistence(edges)
        first == SubSeq(sorted, 1, Min(Len(sorted), limit))
    IN [k \in 1..Len(first) |->
           [ gameId |-> first[k].feature.gameId,
             persistence |-> Persistence(first[k]),
             isAlive |-> first[k].death = Infinity,
             initialEdge |-> first[k].feature.initialEdge ]]

\* what _analyzeTopology reads of exportForVisualization
TopologyExport(t) ==
    [ holes |-> t.holes,
      betti |-> CalculateBettiNumbers(t),
      complexity |-> GetComplexityScore(t),
      stability |-> GetStabilityScore(t) ]

\* clear of the topology tracker
TopologyClear(t) ==
    [t EXCEPT !.snapshots = <<>>, !.persistenceDiagram = <<>>, !.clusters = <<>>,
              !.holes = <<>>, !.activeFeatures = <<>>]

\* ------------------------------------------------------------------
\* BotDecisionInterface
\* ------------------------------------------------------------------

\* this.maxHistoryLength
maxHistoryLength == 100

\* constructor defaults; bankroll in dollars, maxTotalExposure in millionths
DefaultConfig ==
    [ bankroll |-> 10000, minSignalStrength |-> 600, minCrystallization |-> 500,
      maxAllocations |-> 5, maxTotalExposure |-> 150000 ]

\* QuickStart.live
LiveConfig ==
    [ bankroll |-> 10000, minSignalStrength |-> 700, minCrystallization |-> 600,
      maxAllocations |-> 5, maxTotalExposure |-> 80000 ]

\* this.currentDecision = null
NoDecision == [isNull |-> TRUE]

\* decision.topology = null
NoTopology == [isNull |-> TRUE]

\* ATTRACTOR_STATES[key] of _analyzeGeometry: <<>> for undefined
AttractorLookup(key) ==
    IF key \in DOMAIN ATTRACTOR_STATES THEN << ATTRACTOR_STATES[key] >> ELSE <<>>

\* _analyzeGeometry
AnalyzeGeometry(decision, geomState, cfg) ==
    LET found == AttractorLookup(geomState.attractor)
    IN IF found = <<>>
       THEN [decision EXCEPT !.reasons = Append(@, "No attractor detected")]
       ELSE
         LET attractor == found[1]
             weak == geomState.attractorStrength < cfg.minSignalStrength
             d1 == [decision EXCEPT
                      !.signalStrength =
                          IF weak THEN "WEAK"
                          ELSE IF geomState.attractorStrength > 800 THEN "STRONG"
                          ELSE "MODERATE",
                      !.reasons =
                          (IF weak THEN Append(@, "Attractor strength below threshold") ELSE @)
                          \o << IF geomState.crystallization < cfg.minCrystallization
                                THEN "Crystallization - geometry not stable"
                                ELSE "Crystallization - geometry stable" >>]
         IN CASE attractor.action = "EXECUTE" ->
                   IF d1.signalStrength # "WEAK"
                   THEN [d1 EXCEPT !.type = "EXECUTE", !.execute = TRUE,
                                   !.reasons = Append(@, "Attractor signals EXECUTE")]
                   ELSE d1
              [] attractor.action = "PREPARE" ->
                   [d1 EXCEPT !.type = "PREPARE",
                              !.reasons = Append(@, "Attractor signals PREPARE")]
              [] attractor.action = "REDUCE" ->
                   [d1 EXCEPT !.type = "REDUCE", !.execute = TRUE,
                              !.reasons = Append(@, "Attractor signals REDUCE exposure")]
              [] attractor.action = "PASS" ->
                   [d1 EXCEPT !.type = "PASS",
                              !.reasons = Append(@, "Attractor signals PASS")]
              [] OTHER ->
                   [d1 EXCEPT !.type = "WAIT",
                              !.reasons = Append(@, "Waiting for geometry to stabilize")]

\* a variant of AnalyzeTopology that tests the complexity before it raises
\* the signal strength for the holes
AnalyzeTopologyComplexityFirst(decision, t) ==
    LET topologyExport == TopologyExport(t)
        significantHoles == SelectSeq(topologyExport.holes, LAMBDA h : h.significance > 500)
        d1 == [decision EXCEPT
                 !.topology = [ betti |-> topologyExport.betti,
                                complexity |-> topologyExport.complexity,
                                stability |-> topologyExport.stability,
                                holes |-> Len(topologyExport.holes) ]]
        d2 == IF topologyExport.complexity > 700
              THEN LET d == [d1 EXCEPT !.reasons =
                                 Append(@, "High market complexity - exercise caution")]
                   IN IF d.execute /\ d.signalStrength # "STRONG"
                      THEN [d EXCEPT !.execute = FALSE, !.type = "PREPARE"]
                      ELSE d
              ELSE d1
        d3 == IF Len(topologyExport.holes) > 0 /\ Len(significantHoles) > 0
              THEN [d2 EXCEPT
                      !.reasons = Append(@, "market topology holes detected"),
                      !.signalStrength = IF @ = "MODERATE" THEN "STRONG" ELSE @]
              ELSE d2
    IN IF topologyExport.stability > 700
       THEN [d3 EXCEPT
               !.reasons = Append(@, "High topological stability"),
               !.confidence = Min(One, DivT(@ * 12, 10))]
       ELSE d3

\* _analyzeTopology
AnalyzeTopology(decision, t) ==
    LET topologyExport == TopologyExport(t)
        significantHoles == SelectSeq(topologyExport.holes, LAMBDA h : h.significance > 500)
        d1 == [decision EXCEPT
                 !.topology = [ betti |-> topologyExport.betti,
                                complexity |-> topologyExport.complexity,
                                stability |-> topologyExport.stability,
                                holes |-> Len(topologyExport.holes) ]]
        d2 == IF Len(topologyExport.holes) > 0 /\ Len(significantHoles) > 0
              THEN [d1 EXCEPT
                      !.reasons = Append(@, "market topology holes detected"),
                      !.signalStrength = IF @ = "MODERATE" THEN "STRONG" ELSE @]
              ELSE d1
        d3 == IF topologyExport.stability > 700
              THEN [d2 EXCEPT
                      !.reasons = Append(@, "High topological stability"),
                      !.confidence = Min(One, DivT(@ * 12, 10))]
              ELSE d2
    IN IF topologyExport.complexity > 700
       THEN LET d4 == [d3 EXCEPT !.reasons =
                           Append(@, "High market complexity - exercise caution")]
            IN IF d4.execute /\ d4.signalStrength # "STRONG"
               THEN [d4 EXCEPT !.execute = FALSE, !.type = "PREPARE"]
               ELSE d4
       ELSE d3

\* Math.round(bankroll * fraction * 100) / 100, held in cents
Amount(bankroll, fraction) == (bankroll * fraction + 5000) \div 10000

\* a variant of ExposureLoop that never cuts an allocation down to the
\* exposure that is left
RECURSIVE ExposureLoopUncapped(_, _, _, _, _)
ExposureLoopUncapped(allocations, i, totalExposure, finalAllocations, cfg) ==
    IF i > Len(allocations)
    THEN [allocations |-> finalAllocations, totalExposure |-> totalExposure]
    ELSE
      LET alloc == allocations[i]
      IN IF alloc.fraction > MinFraction
         THEN ExposureLoopUncapped(allocations, i + 1, totalExposure + alloc.fraction,
                                   Append(finalAllocations,
                                          [ gameId |-> alloc.gameId,
                                            fraction |-> alloc.fraction,
                                            amount |-> Amount(cfg.bankroll, alloc.fraction),
                                            edge |-> alloc.edge,
                                            confidence |-> alloc.confidence ]),
                                   cfg)
         ELSE ExposureLoopUncapped(allocations, i + 1, totalExposure, finalAllocations, cfg)

\* the exposure loop of _calculateAllocations from entry i on
RECURSIVE ExposureLoop(_, _, _, _, _)
ExposureLoop(allocations, i, totalExposure, finalAllocations, cfg) ==
    IF i > Len(allocations)
    THEN [allocations |-> finalAllocations, totalExposure |-> totalExposure]
    ELSE
      LET alloc == allocations[i]
          fraction == IF totalExposure + alloc.fraction > cfg.maxTotalExposure
                      THEN Max(0, cfg.maxTotalExposure - totalExposure)
                      ELSE alloc.fraction
      IN IF fraction > MinFraction
         THEN ExposureLoop(allocations, i + 1, totalExposure + fraction,
                           Append(finalAllocations,
                                  [ gameId |-> alloc.gameId, fraction |-> fraction,
                                    amount |-> Amount(cfg.bankroll, fraction),
                                    edge |-> alloc.edge, confidence |-> alloc.confidence ]),
                           cfg)
         ELSE ExposureLoop(allocations, i + 1, totalExposure, finalAllocations, cfg)

\* _calculateAllocations of the decision interface
CalculateAllocations(decision, geomState, cfg) ==
    IF decision.type = "PASS" \/ decision.type = "WAIT" THEN decision
    ELSE
      LET filtered == SelectSeq(geomState.allocations, LAMBDA a : a.fraction > MinFraction)
          sorted == SortByFraction(filtered)
          allocations == SubSeq(sorted, 1, Min(Len(sorted), cfg.maxAllocations))
          final == ExposureLoop(allocations, 1, 0, <<>>, cfg)
      IN [decision EXCEPT !.allocations = final.allocations,
                          !.totalExposure = final.totalExposure]

\* _finalizeDecision at time t
FinalizeDecision(decision, history, t) ==
    LET d1 == IF decision.execute /\ Len(decision.allocations) = 0
              THEN [decision EXCEPT !.execute = FALSE, !.type = "WAIT",
                                    !.reasons = Append(@, "No valid allocations available")]
              ELSE decision
        recentExecutions == SelectSeq(history, LAMBDA d : d.execute /\ t - d.timestamp < 60000)
        d2 == IF Len(recentExecutions) > 3
              THEN [d1 EXCEPT !.reasons = Append(@, "Cooling down - multiple recent executions"),
                              !.confidence = DivT(@ * 8, 10)]
              ELSE d1
    IN IF d2.execute /\ d2.confidence < 400
       THEN [d2 EXCEPT !.execute = FALSE, !.type = "PREPARE",
                       !.reasons = Append(@, "Confidence too low for execution")]
       ELSE d2

\* _generateDecision at time t
GenerateDecision(geomState, t, topo, history, cfg, count) ==
    LET decision == [ timestamp |-> t, updateCount |-> count,
                      execute |-> FALSE, type |-> "WAIT", signalStrength |-> "NOISE",
                      attractor |-> geomState.attractor,
                      attractorStrength |-> geomState.attractorStrength,
                      confidence |-> geomState.confidence,
                      crystallization |-> geomState.crystallization,
                      portfolioEnergy |-> geomState.portfolioEnergy,
                      allocations |-> <<>>, totalExposure |-> 0,
                      reasons |-> <<>>, topology |-> NoTopology ]
        d1 == AnalyzeGeometry(decision, geomState, cfg)
        d2 == AnalyzeTopology(d1, topo)
        d3 == CalculateAllocations(d2, geomState, cfg)
    IN FinalizeDecision(d3, history, t)

\* _createEmptyDecision at time t
CreateEmptyDecision(t) ==
    [ timestamp |-> t, updateCount |-> 0,
      execute |-> FALSE, type |-> "WAIT", signalStrength |-> "NOISE",
      attractor |-> "null", attractorStrength |-> 0, confidence |-> 0,
      crystallization |-> 0, portfolioEnergy |-> 0,
      allocations |-> <<>>, totalExposure |-> 0,
      reasons |-> << "No opportunities processed" >>, topology |-> NoTopology ]

\* _recordDecision
RecordDecision(history, decision) ==
    ShiftWhileLonger(Append(history, [ timestamp |-> decision.timestamp,
                                       execute |-> decision.execute,
                                       type |-> decision.type,
                                       totalExposure |-> decision.totalExposure,
                                       confidence |-> decision.confidence ]),
                     maxHistoryLength)

\* ------------------------------------------------------------------
\* State machine
\* ------------------------------------------------------------------

VARIABLES
    engine,           \* BettingGeometryEngine: opportunities, portfolioGeometry,
                      \* currentAttractor, attractorStrength, edgeHistory; and
                      \* changes, the onAttractorChange calls of the last operation
    topology,         \* MarketTopology: snapshots, persistenceDiagram, clusters,
                      \* holes, activeFeatures
    config,           \* BotDecisionInterface.config
    currentDecision,  \* BotDecisionInterface.currentDecision
    decisionHistory,  \* BotDecisionInterface.decisionHistory
    updateCount,      \* BotDecisionInterface.updateCount
    lastUpdateTime,   \* BotDecisionInterface.lastUpdateTime
    now,              \* Date.now()
    lastOp,           \* the last call of update, removeOpportunity or clear, with
                      \* its arguments
    risk              \* RiskManager: streakReduction, consecutiveLosses, and
                      \* results, the outcomes recorded so far

vars == << engine, topology, config, currentDecision, decisionHistory, updateCount,
           lastUpdateTime, now, lastOp, risk >>

\* STREAK_REDUCTION_FACTOR = 0.50, in thousandths
STREAK_REDUCTION_FACTOR == 500

\* new RiskManager({ streakReduction: 0.5 })
NewRiskManager ==
    [ streakReduction |-> STREAK_REDUCTION_FACTOR, consecutiveLosses |-> 0,
      results |-> <<>> ]

\* the games of the model
Games == {"g1", "g2"}

\* opportunities of the feed for one game
Strong(g) == [gameId |-> g, modelProb |-> 600, impliedProb |-> 500, confidence |-> 700]
Fading(g) == [gameId |-> g, modelProb |-> 450, impliedProb |-> 500, confidence |-> 700]

\* the contexts of update: 30 minutes to close (the rest by the defaults of
\* processOpportunity), a sharp market, and a crowded late market
DefaultContext == [minutesToClose |-> 30, correlatedExposure |-> 0, marketVolatility |-> 500]
SharpContext == [minutesToClose |-> 30, correlatedExposure |-> 0, marketVolatility |-> 100]
CrowdedContext == [minutesToClose |-> 3, correlatedExposure |-> 800, marketVolatility |-> 500]

\* the arguments of one update: no opportunity, one game, two games
Feed(opportunities, context) == [opportunities |-> opportunities, context |-> context]

Feeds ==
    { Feed(<<>>, DefaultContext),
      Feed(<< Strong("g1") >>, DefaultContext),
      Feed(<< Strong("g1") >>, SharpContext),
      Feed(<< Fading("g1") >>, DefaultContext),
      Feed(<< Strong("g1"), Strong("g2") >>, DefaultContext),
      Feed(<< Strong("g1"), Strong("g2") >>, CrowdedContext),
      Feed(<< Strong("g1"), Fading("g2") >>, DefaultContext) }

\* bankrolls given to setBankroll
Bankrolls == {10000, 20000}

\* the clock advances in steps of ClockStep ms, MaxClockSteps times at most
ClockStep == 61000
MaxClockSteps == 1

\* the number of updates between two clear() calls
MaxTicks == 2

NoOp == [name |-> "new", gameId |-> "", opportunities |-> <<>>, context |-> DefaultContext]

\* new BettingGeometryEngine(): the state its constructor sets
NewEngine ==
    [ opportunities |-> <<>>, portfolioGeometry |-> NoPortfolio,
      currentAttractor |-> NoAttractor, attractorStrength |-> 0,
      edgeHistory |-> [g \in Games |-> <<>>], changes |-> <<>> ]

\* new MarketTopology(): the state its constructor sets
NewTopology ==
    [ snapshots |-> <<>>, persistenceDiagram |-> <<>>, clusters |-> <<>>,
      holes |-> <<>>, activeFeatures |-> <<>> ]

\* new BotDecisionInterface(cfg)
New(cfg) ==
    /\ engine = NewEngine
    /\ topology = NewTopology
    /\ config = cfg
    /\ currentDecision = NoDecision
    /\ decisionHistory = <<>>
    /\ updateCount = 0
    /\ lastUpdateTime = 0
    /\ now = 0
    /\ lastOp = NoOp

Init == New(DefaultConfig) /\ risk = NewRiskManager

InitLive == New(LiveConfig) /\ risk = NewRiskManager

\* a variant of Update that assembles the decision before the snapshot of
\* the tick is taken
UpdateBeforeSnapshot(opportunities, context) ==
    LET e1 == ProcessAll([engine EXCEPT !.changes = <<>>], opportunities, context, now)
        geomState == QueryGeometricState(e1)
        t1 == AddSnapshot(topology, opportunities, now)
        decision == GenerateDecision(geomState, now, topology, decisionHistory, config,
                                     updateCount + 1)
    IN /\ lastUpdateTime' = now
       /\ updateCount' = updateCount + 1
       /\ engine' = e1
       /\ topology' = t1
       /\ currentDecision' = decision
       /\ decisionHistory' = RecordDecision(decisionHistory, decision)
       /\ lastOp' = [name |-> "update", gameId |-> "", opportunities |-> opportunities,
                     context |-> context]
       /\ UNCHANGED << config, now, risk >>

\* a variant of Update in which the engine forgets the opportunities the
\* tick does not list
UpdateDroppingStale(opportunities, context) ==
    LET listed == { opportunities[i].gameId : i \in 1..Len(opportunities) }
        e0 == [engine EXCEPT !.changes = <<>>,
                             !.opportunities = SelectSeq(@, LAMBDA g : g.gameId \in listed)]
        e1 == ProcessAll(e0, opportunities, context, now)
        geomState == QueryGeometricState(e1)
        t1 == AddSnapshot(topology, opportunities, now)
        decision == GenerateDecision(geomState, now, t1, decisionHistory, config,
                                     updateCount + 1)
    IN /\ lastUpdateTime' = now
       /\ updateCount' = updateCount + 1
       /\ engine' = e1
       /\ topology' = t1
       /\ currentDecision' = decision
       /\ decisionHistory' = RecordDecision(decisionHistory, decision)
       /\ lastOp' = [name |-> "update", gameId |-> "", opportunities |-> opportunities,
                     context |-> context]
       /\ UNCHANGED << config, now, risk >>

\* update(opportunities, context)
Update(opportunities, context) ==
    LET e1 == ProcessAll([engine EXCEPT !.changes = <<>>], opportunities, context, now)
        geomState == QueryGeometricState(e1)
        t1 == AddSnapshot(topology, opportunities, now)
        decision == GenerateDecision(geomState, now, t1, decisionHistory, config,
                                     updateCount + 1)
    IN /\ lastUpdateTime' = now
       /\ updateCount' = updateCount + 1
       /\ engine' = e1
       /\ topology' = t1
       /\ currentDecision' = decision
       /\ decisionHistory' = RecordDecision(decisionHistory, decision)
       /\ lastOp' = [name |-> "update", gameId |-> "", opportunities |-> opportunities,
                     context |-> context]
       /\ UNCHANGED << config, now, risk >>

\* removeOpportunity(gameId)
RemoveOpportunity(gameId) ==
    /\ engine' = EngineRemoveOpportunity([engine EXCEPT !.changes = <<>>], gameId)
    /\ lastOp' = [NoOp EXCEPT !.name = "removeOpportunity", !.gameId = gameId]
    /\ UNCHANGED << topology, config, currentDecision, decisionHistory, updateCount,
                    lastUpdateTime, now, risk >>

\* clear()
Clear ==
    /\ engine' = EngineClear([engine EXCEPT !.changes = <<>>])
    /\ topology' = TopologyClear(topology)
    /\ currentDecision' = NoDecision
    /\ decisionHistory' = <<>>
    /\ updateCount' = 0
    /\ lastOp' = [NoOp EXCEPT !.name = "clear"]
    /\ UNCHANGED << config, lastUpdateTime, now, risk >>

\* setBankroll(bankroll)
SetBankroll(bankroll) ==
    /\ config' = [config EXCEPT !.bankroll = bankroll]
    /\ UNCHANGED << engine, topology, currentDecision, decisionHistory, updateCount,
                    lastUpdateTime, now, lastOp, risk >>

\* wall-clock time passes between two calls
AdvanceClock ==
    /\ now < MaxClockSteps * ClockStep
    /\ now' = now + ClockStep
    /\ UNCHANGED << engine, topology, config, currentDecision, decisionHistory,
                    updateCount, lastUpdateTime, lastOp, risk >>

Next ==
    \/ \E feed \in Feeds :
          updateCount < MaxTicks /\ Update(feed.opportunities, feed.context)
    \/ \E gameId \in Games : RemoveOpportunity(gameId)
    \/ Clear
    \/ \E bankroll \in Bankrolls : SetBankroll(bankroll)
    \/ AdvanceClock

Spec == Init /\ [][Next]_vars

\* the same machine built by QuickStart.live
SpecLive == InitLive /\ [][Next]_vars

\* ------------------------------------------------------------------
\* A long run: one update per clock step
\* ------------------------------------------------------------------

\* the number of updates of the long run (more than maxSnapshots)
MaxLongTicks == 125

\* update() once the clock has moved on since the last update
LongUpdate ==
    /\ updateCount < MaxLongTicks
    /\ (updateCount = 0 \/ now > lastUpdateTime)
    /\ Update(<< Strong("g1") >>, DefaultContext)

\* wall-clock time passes after an update
LongClock ==
    /\ updateCount > 0
    /\ now = lastUpdateTime
    /\ now' = now + ClockStep
    /\ UNCHANGED << engine, topology, config, currentDecision, decisionHistory,
                    updateCount, lastUpdateTime, lastOp, risk >>

NextLong == LongUpdate \/ LongClock

SpecLong == Init /\ [][NextLong]_vars

\* ------------------------------------------------------------------
\* The classifier on a grid of inputs: one processOpportunity call on a
\* new engine
\* ------------------------------------------------------------------

\* the inputs of the call; none lies on a threshold of ATTRACTOR_STATES
GridOpportunities ==
    { [gameId |-> "g1", modelProb |-> m, impliedProb |-> 500, confidence |-> c] :
        m \in {500, 510, 522, 527, 600}, c \in {300, 450, 520, 600, 700} }

GridContexts ==
    [ minutesToClose : {3, 30},
      correlatedExposure : {0, 550, 650, 800},
      marketVolatility : {100, 180, 250, 500} ]

\* context.previousEdge: null, or an edge in thousandths
GridPreviousEdges == { <<>>, << 25 >>, << 95 >>, << 103 >>, << 107 >>, << 115 >> }

\* geometryEngine.processOpportunity(opp, {...context, previousEdge})
ProcessOne(opp, context, previousEdge) ==
    /\ Len(engine.opportunities) = 0
    /\ engine' = ProcessOpportunity([engine EXCEPT !.changes = <<>>], opp, context,
                                    previousEdge, now)
    /\ lastOp' = [name |-> "processOpportunity", gameId |-> opp.gameId,
                  opportunities |-> << opp >>, context |-> context]
    /\ UNCHANGED << topology, config, currentDecision, decisionHistory, updateCount,
                    lastUpdateTime, now, risk >>

NextEngine ==
    \E opp \in GridOpportunities, context \in GridContexts,
       previousEdge \in GridPreviousEdges : ProcessOne(opp, context, previousEdge)

SpecEngine == Init /\ [][NextEngine]_vars

\* ------------------------------------------------------------------
\* The same machine on feeds that change one game at a time and that carry
\* one game twice
\* ------------------------------------------------------------------

\* opportunities whose confidence moves the aggregate across the
\* confidenceMin of Stable Edge
Shaky(g) == [gameId |-> g, modelProb |-> 600, impliedProb |-> 500, confidence |-> 450]
Sure(g) == [gameId |-> g, modelProb |-> 600, impliedProb |-> 500, confidence |-> 1000]

VariedFeeds ==
    { Feed(<< Strong("g1"), Strong("g2") >>, DefaultContext),
      Feed(<< Shaky("g1"), Sure("g2") >>, DefaultContext),
      Feed(<< Strong("g1"), Fading("g1") >>, DefaultContext),
      Feed(<< Strong("g1"), Fading("g2") >>, DefaultContext),
      Feed(<< Fading("g1") >>, DefaultContext) }

NextVaried ==
    \/ \E feed \in VariedFeeds :
          updateCount < MaxTicks /\ Update(feed.opportunities, feed.context)
    \/ \E gameId \in Games : RemoveOpportunity(gameId)
    \/ Clear
    \/ AdvanceClock

SpecVaried == Init /\ [][NextVaried]_vars

\* ------------------------------------------------------------------
\* RiskManager: the loss streak
\* ------------------------------------------------------------------

\* the results recorded in one run
MaxResults == 6

\* base fractions in millionths (0.0256 and 0.0512), which halve exactly
StreakBases == { 25600, 51200 }

\* a variant of RecordResultOn in which a win leaves the streak as it is
RecordResultKeepingStreak(r, won) ==
    [r EXCEPT !.consecutiveLosses = IF won THEN @ ELSE @ + 1,
              !.results = Append(@, won)]

\* recordResult(won): a loss extends the streak, a win ends it
RecordResultOn(r, won) ==
    [r EXCEPT !.consecutiveLosses = IF won THEN 0 ELSE @ + 1,
              !.results = Append(@, won)]

\* fraction * factor^n, one multiplication at a time
RECURSIVE TimesPower(_, _, _)
TimesPower(fraction, factor, n) ==
    IF n = 0 THEN fraction ELSE TimesPower(MulF(fraction, factor), factor, n - 1)

\* applyStreakAdjustment(fraction): fraction * streakReduction^consecutiveLosses
ApplyStreakAdjustmentOn(r, fraction) ==
    TimesPower(fraction, r.streakReduction, r.consecutiveLosses)

\* risk.recordResult(won)
RecordResult(won) ==
    /\ Len(risk.results) < MaxResults
    /\ risk' = RecordResultOn(risk, won)
    /\ lastOp' = [name |-> "recordResult", won |-> won]
    /\ UNCHANGED << engine, topology, config, currentDecision, decisionHistory,
                    updateCount, lastUpdateTime, now >>

\* risk.applyStreakAdjustment(fraction); lastOp keeps the value returned
ApplyStreakAdjustment(fraction) ==
    /\ lastOp' = [name |-> "applyStreakAdjustment", fraction |-> fraction,
                  adjusted |-> ApplyStreakAdjustmentOn(risk, fraction)]
    /\ UNCHANGED << engine, topology, config, currentDecision, decisionHistory,
                    updateCount, lastUpdateTime, now, risk >>

NextRisk ==
    \/ \E won \in BOOLEAN : RecordResult(won)
    \/ \E fraction \in StreakBases : ApplyStreakAdjustment(fraction)

SpecRisk == Init /\ [][NextRisk]_vars

\* ------------------------------------------------------------------
\* A burst of updates within one millisecond
\* ------------------------------------------------------------------

\* the updates of a burst: enough to fill the snapshot window with snapshots
\* of one timestamp after the first two ticks, and one more
MaxBurstTicks == 123

\* the feeds tick n draws from: g1 above or below the edge threshold on the
\* first two ticks and once the window holds one timestamp only, above it in
\* between
BurstFeeds(n) ==
    IF n <= 2 \/ n >= maxSnapshots + 3
    THEN { << Strong("g1") >>, << Fading("g1") >> }
    ELSE { << Strong("g1") >> }

\* update() during the burst
BurstUpdate ==
    /\ updateCount < MaxBurstTicks
    /\ \E opportunities \in BurstFeeds(updateCount + 1) :
           Update(opportunities, DefaultContext)

\* wall-clock time passes once, after the first tick
BurstClock ==
    /\ updateCount = 1
    /\ now = 0
    /\ now' = now + ClockStep
    /\ UNCHANGED << engine, topology, config, currentDecision, decisionHistory,
                    updateCount, lastUpdateTime, lastOp, risk >>

NextBurst == BurstUpdate \/ BurstClock

SpecBurst == Init /\ [][NextBurst]_vars

\* ------------------------------------------------------------------
\* processOpportunity on signed inputs
\* ------------------------------------------------------------------

\* finite opportunities, a negative and an above-one confidence among them
SignedOpportunities ==
    { [gameId |-> "g1", modelProb |-> m, impliedProb |-> 500, confidence |-> c] :
        m \in {400, 600}, c \in {-200, 700, 1500} }

\* finite contexts, negative values among them; previousEdge is <<>> for null
SignedContexts ==
    [ minutesToClose : {-10, 30},
      correlatedExposure : {-300, 0, 800},
      marketVolatility : {-250, 500, 1200},
      previousEdge : { <<>>, << 25 >> } ]

\* geometryEngine.processOpportunity(opp, context), context.previousEdge given
ProcessInContext(opp, context) ==
    /\ Len(engine.opportunities) = 0
    /\ engine' = ProcessOpportunity([engine EXCEPT !.changes = <<>>], opp, context,
                                    context.previousEdge, now)
    /\ lastOp' = [name |-> "processOpportunity", gameId |-> opp.gameId,
                  opportunities |-> << opp >>, context |-> context]
    /\ UNCHANGED << topology, config, currentDecision, decisionHistory, updateCount,
                    lastUpdateTime, now, risk >>

NextSigned ==
    \E opp \in SignedOpportunities, context \in SignedContexts :
        ProcessInContext(opp, context)

SpecSigned == Init /\ [][NextSigned]_vars

\* ------------------------------------------------------------------
\* processOpportunity on missing and NaN inputs
\* ------------------------------------------------------------------

\* a JavaScript value: a finite number in thousandths, NaN or undefined
Num(v) == [kind |-> "number", value |-> v]
NaN == [kind |-> "NaN", value |-> 0]
Undefined == [kind |-> "undefined", value |-> 0]
IsFinite(x) == x.kind = "number"

\* a destructuring default: it replaces undefined only
OrDefault(x, d) == IF x = Undefined THEN Num(d) ELSE x

\* the number a finite operator is evaluated on in place of a value whose
\* result is overridden by NaN
Clean(x) == IF IsFinite(x) THEN x.value ELSE 0
CleanAll(channels) == [c \in DOMAIN channels |-> Clean(channels[c])]

\* _calculateChannels on JavaScript values: arithmetic, Math.min and Math.max
\* on NaN or undefined give NaN, which the Float32Array stores
CalculateChannelsJs(modelProb, impliedProb, confidence, minutesToClose, correlatedExposure, marketVolatility, previousEdge) ==
    LET finite == CalculateChannels(Clean(modelProb), Clean(impliedProb), Clean(confidence), Clean(minutesToClose), Clean(correlatedExposure), Clean(marketVolatility), previousEdge)
        edgeIsFinite == IsFinite(modelProb) /\ IsFinite(impliedProb)
    IN << IF edgeIsFinite THEN Num(finite[EDGE]) ELSE NaN,
          IF IsFinite(confidence) THEN Num(finite[CONFIDENCE]) ELSE NaN,
          IF IsFinite(minutesToClose) THEN Num(finite[TIME]) ELSE NaN,
          IF IsFinite(correlatedExposure) THEN Num(finite[CORRELATION]) ELSE NaN,
          IF IsFinite(marketVolatility) THEN Num(finite[EFFICIENCY]) ELSE NaN,
          IF previousEdge = <<>> \/ edgeIsFinite THEN Num(finite[MOMENTUM]) ELSE NaN >>

\* _channelsToPosition on JavaScript values
ChannelsToPositionJs(channels) ==
    LET finite == ChannelsToPosition(CleanAll(channels))
        from == << EDGE, CONFIDENCE, TIME, EFFICIENCY >>
    IN [d \in 1..4 |-> IF IsFinite(channels[from[d]]) THEN Num(finite[d]) ELSE NaN]

\* the channel a condition of _matchAttractor reads
ConditionChannel(key) ==
    CASE key \in {"edgeMin", "edgeMax"} -> EDGE
      [] key \in {"confidenceMin", "confidenceMax"} -> CONFIDENCE
      [] key \in {"timeMin", "timeMax"} -> TIME
      [] key \in {"correlationMax", "correlationMin"} -> CORRELATION
      [] key \in {"efficiencyMin", "efficiencyMax"} -> EFFICIENCY
      [] key \in {"momentumMin", "momentumMax"} -> MOMENTUM

\* _matchAttractor on JavaScript values: a comparison with NaN is false
MatchAttractorJs(channels, conditions) ==
    LET present == DOMAIN conditions \cap ConditionKeys
        total == Cardinality(present)
        matches == Cardinality({k \in present :
                       /\ IsFinite(channels[ConditionChannel(k)])
                       /\ ConditionHolds(CleanAll(channels), k, conditions[k])})
    IN IF total > 0 THEN (matches * One) \div total ELSE 0

\* the loop of _detectAttractor on JavaScript values
RECURSIVE BestMatchFromJs(_, _, _, _)
BestMatchFromJs(channels, i, bestMatch, bestStrength) ==
    IF i > Len(AttractorOrder) THEN [match |-> bestMatch, strength |-> bestStrength]
    ELSE LET key == AttractorOrder[i]
             strength == MatchAttractorJs(channels, ATTRACTOR_STATES[key].conditions)
         IN IF strength > bestStrength
            THEN BestMatchFromJs(channels, i + 1, key, strength)
            ELSE BestMatchFromJs(channels, i + 1, bestMatch, bestStrength)

\* processOpportunity on JavaScript values for the first opportunity of an
\* engine: the portfolio of one opportunity has that opportunity's channels
\* and position (a mean over one value), crystallization 0 and
\* opportunityCount 1
ProcessOpportunityJs(e, opp, ctx, t) ==
    LET channels == CalculateChannelsJs(opp.modelProb, opp.impliedProb, OrDefault(opp.confidence, 500), OrDefault(ctx.minutesToClose, 60), OrDefault(ctx.correlatedExposure, 0), OrDefault(ctx.marketVolatility, 500), ctx.previousEdge)
        position == ChannelsToPositionJs(channels)
        geometry == [ gameId |-> opp.gameId, channels |-> channels,
                      position |-> position, opportunity |-> opp ]
        energy == IF \A d \in 1..4 : IsFinite(position[d])
                  THEN Num(Magnitude(CleanAll(position))) ELSE NaN
        best == BestMatchFromJs(channels, 1, NoAttractor, 0)
    IN [e EXCEPT !.opportunities = << geometry >>,
                 !.edgeHistory[opp.gameId] = Append(@, [edge |-> channels[EDGE], time |-> t]),
                 !.portfolioGeometry =
                     [ position |-> position, channels |-> channels, energy |-> energy,
                       crystallization |-> 0, opportunityCount |-> 1 ],
                 !.currentAttractor = best.match,
                 !.attractorStrength = best.strength,
                 !.changes =
                     IF best.match # e.currentAttractor
                     THEN Append(@, [to |-> best.match, strength |-> best.strength,
                                     from |-> e.currentAttractor])
                     ELSE @]

\* _calculateAllocations on JavaScript values: Math.min(0.05, Math.max(0, NaN))
\* is NaN
EngineAllocationsJs(e) ==
    LET finite == EngineAllocations([e EXCEPT !.opportunities =
                      [k \in 1..Len(@) |-> [@[k] EXCEPT !.channels = CleanAll(@)]]])
        ChannelsOf(gameId) ==
            (CHOOSE geom \in { e.opportunities[k] : k \in 1..Len(e.opportunities) } :
                geom.gameId = gameId).channels
    IN [k \in 1..Len(finite) |->
          [ gameId |-> finite[k].gameId,
            fraction |->
                IF \A c \in {EDGE, CONFIDENCE, CORRELATION} :
                       IsFinite(ChannelsOf(finite[k].gameId)[c])
                THEN Num(finite[k].fraction) ELSE NaN ]]

\* opportunities with a missing or NaN modelProb, impliedProb or confidence
JsOpportunities ==
    [ gameId : {"g1"},
      modelProb : { Num(600), Undefined, NaN },
      impliedProb : { Num(500), Undefined },
      confidence : { Num(700), Undefined, NaN } ]

\* contexts with a missing or NaN member
JsContexts ==
    [ minutesToClose : { Num(30), Undefined, NaN },
      correlatedExposure : { Num(0), Undefined, NaN },
      marketVolatility : { Num(500), Undefined, NaN },
      previousEdge : { <<>>, << 25 >> } ]

\* geometryEngine.processOpportunity(opp, context) on JavaScript values
ProcessJs(opp, context) ==
    /\ Len(engine.opportunities) = 0
    /\ engine' = ProcessOpportunityJs([engine EXCEPT !.changes = <<>>], opp, context, now)
    /\ lastOp' = [name |-> "processOpportunity", gameId |-> opp.gameId,
                  opportunities |-> << opp >>, context |-> context]
    /\ UNCHANGED << topology, config, currentDecision, decisionHistory, updateCount,
                    lastUpdateTime, now, risk >>

NextJs == \E opp \in JsOpportunities, context \in JsContexts : ProcessJs(opp, context)

SpecJs == Init /\ [][NextJs]_vars

\* ------------------------------------------------------------------
\* _finalizeDecision on a drawn decision history
\* ------------------------------------------------------------------

\* the longest decision history drawn
MaxHistory == 4

\* the time of the finalized tick; a recorded decision is stamped 0 (more than
\* 60 seconds earlier) or with this time
FinalizeTime == 2 * ClockStep

\* what _recordDecision keeps of a decision
Recorded(timestamp, execute) ==
    [ timestamp |-> timestamp, execute |-> execute,
      type |-> IF execute THEN "EXECUTE" ELSE "WAIT",
      totalExposure |-> IF execute THEN MaxBetFraction ELSE 0,
      confidence |-> 500 ]

\* the histories of at most MaxHistory recorded decisions, oldest first
RecordedHistories ==
    LET Entries == { Recorded(t, x) : t \in {0, FinalizeTime}, x \in BOOLEAN }
    IN { h \in UNION { [1..n -> Entries] : n \in 0..MaxHistory } :
           \A i \in 1..(Len(h) - 1) : h[i].timestamp <= h[i + 1].timestamp }

\* the decision as _generateDecision hands it to _finalizeDecision: it
\* executes and carries one allocation
Drafts ==
    { [ timestamp |-> FinalizeTime, updateCount |-> 1,
        execute |-> TRUE, type |-> "EXECUTE", signalStrength |-> "STRONG",
        attractor |-> "Stable Edge", attractorStrength |-> One,
        confidence |-> c, crystallization |-> One, portfolioEnergy |-> 0,
        allocations |-> << [ gameId |-> "g1", fraction |-> MaxBetFraction,
                             amount |-> 50000, edge |-> 100, confidence |-> 700 ] >>,
        totalExposure |-> MaxBetFraction,
        reasons |-> <<>>, topology |-> NoTopology ] : c \in {500, 1000} }

InitFinalize ==
    /\ engine = NewEngine
    /\ topology = NewTopology
    /\ config = DefaultConfig
    /\ currentDecision = NoDecision
    /\ decisionHistory \in RecordedHistories
    /\ updateCount = Len(decisionHistory)
    /\ lastUpdateTime = 0
    /\ now = FinalizeTime
    /\ lastOp = NoOp
    /\ risk = NewRiskManager

\* this._finalizeDecision(draft)
Finalize(draft) ==
    /\ lastOp.name = "new"
    /\ currentDecision' = FinalizeDecision(draft, decisionHistory, now)
    /\ lastOp' = [name |-> "finalize", draft |-> draft]
    /\ UNCHANGED << engine, topology, config, decisionHistory, updateCount,
                    lastUpdateTime, now, risk >>

NextFinalize == \E draft \in Drafts : Finalize(draft)

SpecFinalize == InitFinalize /\ [][NextFinalize]_vars

\* ------------------------------------------------------------------
\* _generateDecision on a drawn geometric state, topology and history
\* ------------------------------------------------------------------

\* nine opportunities of nine games, five with edge +e and four with edge -e,
\* their confidences 0.2 apart so that no two of them cluster
Crowd(e) ==
    LET Opp(g, m, c) == [gameId |-> g, modelProb |-> m, impliedProb |-> 500, confidence |-> c]
    IN << Opp("g1", 500 + e, 100), Opp("g2", 500 + e, 300), Opp("g3", 500 + e, 500),
          Opp("g4", 500 + e, 700), Opp("g5", 500 + e, 900),
          Opp("g6", 500 - e, 100), Opp("g7", 500 - e, 300), Opp("g8", 500 - e, 500),
          Opp("g9", 500 - e, 700) >>

\* the opportunity lists the drawn topologies have taken as their last snapshot
GenerateFeeds ==
    { << Fading("g1") >>, << Strong("g1") >>,
      << [gameId |-> "g1", modelProb |-> 800, impliedProb |-> 500, confidence |-> 700],
         [gameId |-> "g2", modelProb |-> 200, impliedProb |-> 500, confidence |-> 700] >>,
      Crowd(300), Crowd(100) }

\* a tracker whose only snapshot is the feed, and one that took an empty
\* snapshot a clock step earlier
GenerateTopologies ==
    { AddSnapshot(NewTopology, feed, ClockStep) : feed \in GenerateFeeds }
        \cup { AddSnapshot(AddSnapshot(NewTopology, <<>>, 0), feed, ClockStep) :
                 feed \in GenerateFeeds }

\* an empty history, and one of four decisions that executed in this
\* millisecond
GenerateHistories ==
    { <<>>, [k \in 1..4 |-> Recorded(ClockStep, TRUE)] }

\* the allocations the engine sizes for games g1, g2, ... with the given
\* fractions
Sized(fractions) ==
    [ k \in 1..Len(fractions) |->
        [ gameId |-> IF k = 1 THEN "g1" ELSE IF k = 2 THEN "g2"
                     ELSE IF k = 3 THEN "g3" ELSE "g4",
          fraction |-> fractions[k], edge |-> 100, confidence |-> 700 ] ]

\* the geometric states handed to _generateDecision: the attractor is a key
\* of ATTRACTOR_STATES, or the display name queryGeometricState returns
GeomStates ==
    [ available : {TRUE}, executable : {TRUE}, action : {"EXECUTE"},
      attractor : {"STABLE_EDGE", "Stable Edge"},
      attractorStrength : {500, 750, 900},
      confidence : {300, 350, 450, 600},
      crystallization : {0},
      portfolioEnergy : {0},
      allocations : { <<>>,
                      << [ gameId |-> "g1", fraction |-> 30000, edge |-> 100,
                           confidence |-> 700 ] >>,
                      Sized(<<50000, 50000, 40000, 30000>>),
                      Sized(<<50000, 50000, 50000, 20000>>) } ]

InitGenerate ==
    /\ engine = NewEngine
    /\ topology \in GenerateTopologies
    /\ config = DefaultConfig
    /\ currentDecision = NoDecision
    /\ decisionHistory \in GenerateHistories
    /\ updateCount = Len(decisionHistory)
    /\ lastUpdateTime = ClockStep
    /\ now = ClockStep
    /\ lastOp = NoOp
    /\ risk = NewRiskManager

\* this._generateDecision(geomState, opportunities)
Generate(geomState) ==
    /\ lastOp.name = "new"
    /\ currentDecision' = GenerateDecision(geomState, now, topology, decisionHistory,
                                           config, updateCount)
    /\ lastOp' = [name |-> "generateDecision", geomState |-> geomState]
    /\ UNCHANGED << engine, topology, config, decisionHistory, updateCount,
                    lastUpdateTime, now, risk >>

NextGenerate == \E geomState \in GeomStates : Generate(geomState)

SpecGenerate == InitGenerate /\ [][NextGenerate]_vars

\* ------------------------------------------------------------------
\* Properties
\* ------------------------------------------------------------------

\* the last operation was an update that processed at least one opportunity;
\* engine and currentDecision are then as that update left them
AfterUpdate == lastOp.name = "update" /\ Len(lastOp.opportunities) >= 1

\* the entry of ATTRACTOR_STATES the engine holds
SelectedAttractor == ATTRACTOR_STATES[engine.currentAttractor]

\* the sizing of _calculateAllocations applied to the engine's allocations
\* for a decision that executes, under configuration cfg
SizedAs(cfg) ==
    CalculateAllocations([ type |-> "EXECUTE", allocations |-> <<>>, totalExposure |-> 0 ],
                         QueryGeometricState(engine), cfg)

\* the sum of the fractions of a list of allocations
SumFractions(allocations) ==
    SumSeq([k \in 1..Len(allocations) |-> allocations[k].fraction])

\* one of the downgrades of the decision type applies to the current decision
DowngradeApplies ==
    /\ SelectedAttractor.action \in {"EXECUTE", "REDUCE"}
    /\ \/ /\ currentDecision.type = "WAIT"
          /\ \/ Len(SizedAs(config).allocations) = 0
             \/ /\ SelectedAttractor.action = "EXECUTE"
                /\ engine.attractorStrength < config.minSignalStrength
       \/ /\ currentDecision.type = "PREPARE"
          /\ \/ currentDecision.topology.complexity > 700
             \/ currentDecision.confidence < 400

\* C1: after an update with at least one opportunity the returned Decision's
\* type is the action of the attractor the classifier selected, unless a
\* downgrade applies (no surviving allocation, high topology complexity,
\* confidence below the execution threshold, or an EXECUTE attractor weaker
\* than minSignalStrength).
C1_TypeFollowsAttractor ==
    AfterUpdate =>
        \/ currentDecision.type = SelectedAttractor.action
        \/ DowngradeApplies

\* the first update of a new interface with the one opportunity
\* {modelProb 0.6, impliedProb 0.5, confidence 0.7}, 30 minutes to close
StableEdgeScenario ==
    /\ lastOp.name = "update"
    /\ lastOp.opportunities = << Strong("g1") >>
    /\ lastOp.context = DefaultContext
    /\ updateCount = 1
    /\ Len(topology.snapshots) = 1
    /\ Len(engine.edgeHistory["g1"]) = 1
    /\ Len(engine.opportunities) = 1
    /\ config = DefaultConfig

\* C2: in that scenario the Decision names Stable Edge or Emerging Edge, has
\* execute = true and carries an allocation with 0 < fraction <= 0.05.
C2_ScenarioExecutes ==
    StableEdgeScenario =>
        /\ currentDecision.attractor \in {"Stable Edge", "Emerging Edge"}
        /\ currentDecision.execute
        /\ \E k \in 1..Len(currentDecision.allocations) :
              /\ currentDecision.allocations[k].fraction > 0
              /\ currentDecision.allocations[k].fraction <= MaxBetFraction

\* d keeps the exposure and allocation limits of cfg
WithinLimits(d, cfg) ==
    /\ SumFractions(d.allocations) <= cfg.maxTotalExposure
    /\ d.totalExposure = SumFractions(d.allocations)
    /\ Len(d.allocations) <= cfg.maxAllocations

\* C3: the allocation fractions of a returned Decision sum to at most
\* maxTotalExposure, totalExposure is that sum, and there are at most
\* maxAllocations allocations; the same holds of the sizing applied to the
\* engine's allocations, under the configuration in force and under one that
\* allows a single allocation.
C3_ExposureWithinLimit ==
    /\ currentDecision # NoDecision => WithinLimits(currentDecision, config)
    /\ \A cfg \in {config, [config EXCEPT !.maxAllocations = 1]} :
          WithinLimits(SizedAs(cfg), cfg)

\* an update has returned while the engine's allocations exceed
\* maxTotalExposure together, and the sizing keeps two of them
C3_Witness ==
    /\ AfterUpdate
    /\ SumFractions(EngineAllocations(engine)) > config.maxTotalExposure
    /\ Len(SizedAs(config).allocations) = 2
    /\ SizedAs(config).totalExposure = config.maxTotalExposure

\* the attractor asks for an execution: EXECUTE at sufficient strength, or
\* REDUCE
WouldExecute ==
    \/ /\ SelectedAttractor.action = "EXECUTE"
       /\ engine.attractorStrength >= config.minSignalStrength
    \/ SelectedAttractor.action = "REDUCE"

\* C4: a Decision with execute = true has allocations; after an update whose
\* attractor asks for an execution while no allocation survives the sizing,
\* the Decision has execute = false, type WAIT and the reason
\* 'No valid allocations available'.
C4_ExecuteHasAllocations ==
    currentDecision # NoDecision =>
        /\ currentDecision.execute => Len(currentDecision.allocations) > 0
        /\ (AfterUpdate /\ WouldExecute /\ Len(SizedAs(config).allocations) = 0) =>
              /\ ~currentDecision.execute
              /\ currentDecision.type = "WAIT"
              /\ \E k \in 1..Len(currentDecision.reasons) :
                    currentDecision.reasons[k] = "No valid allocations available"

\* amount (in cents) is bankroll * fraction rounded to the cent
AmountMatches(allocation, bankroll) ==
    Abs(allocation.amount * 10000 - bankroll * allocation.fraction) <= 5000

\* every allocation of the engine has a fraction in [0, 0.05], and the sizing
\* gives each allocation the amount bankroll * fraction
FractionsAndAmounts ==
    /\ \A k \in 1..Len(EngineAllocations(engine)) :
          /\ EngineAllocations(engine)[k].fraction >= 0
          /\ EngineAllocations(engine)[k].fraction <= MaxBetFraction
    /\ \A k \in 1..Len(SizedAs(config).allocations) :
          AmountMatches(SizedAs(config).allocations[k], config.bankroll)

\* the Decision an update returns carries amounts at the bankroll in force,
\* and a change of the bankroll leaves the current Decision and the history
\* as they are
BankrollInForce ==
    /\ updateCount' = updateCount + 1 =>
          \A k \in 1..Len(currentDecision'.allocations) :
              AmountMatches(currentDecision'.allocations[k], config.bankroll)
    /\ config'.bankroll # config.bankroll =>
          /\ currentDecision' = currentDecision
          /\ decisionHistory' = decisionHistory

\* C5: every allocation produced has a fraction in [0, 0.05]; an allocation
\* of a Decision has amount = bankroll in force at that tick * fraction,
\* rounded to cents; setBankroll changes only the amounts of later ticks.
C5_FractionAndAmount == []FractionsAndAmounts /\ [][BankrollInForce]_vars

\* the bankroll was changed after a tick and an allocation of the engine sits
\* at the cap, sized at the new bankroll
C5_Witness ==
    /\ currentDecision # NoDecision
    /\ config.bankroll = 20000
    /\ \E k \in 1..Len(EngineAllocations(engine)) :
          EngineAllocations(engine)[k].fraction = MaxBetFraction
    /\ \E k \in 1..Len(SizedAs(config).allocations) :
          SizedAs(config).allocations[k].amount = 100000

\* the entries of a window are the last Len(window) arrivals of the long run,
\* oldest first: update k of that run is stamped (k - 1) * ClockStep
LatestArrivals(window, max) ==
    /\ Len(window) = Min(updateCount, max)
    /\ \A i \in 1..Len(window) :
          window[i].timestamp = (updateCount - Len(window) + i - 1) * ClockStep

\* C6: the snapshot window holds at most maxSnapshots snapshots and the
\* decision history at most 100 entries, and both hold the most recent
\* arrivals in arrival order: every write drops the oldest entries first.
C6_WindowsAreFifo ==
    /\ Len(topology.snapshots) <= maxSnapshots
    /\ Len(decisionHistory) <= maxHistoryLength
    /\ LatestArrivals(topology.snapshots, maxSnapshots)
    /\ LatestArrivals(decisionHistory, maxHistoryLength)

\* both windows are full and have dropped entries
C6_Witness ==
    /\ updateCount > maxSnapshots
    /\ Len(topology.snapshots) = maxSnapshots
    /\ Len(decisionHistory) = maxHistoryLength
    /\ topology.snapshots[1].timestamp > 0

\* some structure of the engine or of the topology tracker refers to gameId
RefersTo(gameId) ==
    \/ \E k \in 1..Len(engine.opportunities) : engine.opportunities[k].gameId = gameId
    \/ engine.edgeHistory[gameId] # <<>>
    \/ \E k \in 1..Len(topology.activeFeatures) :
          topology.activeFeatures[k].feature.gameId = gameId
    \/ \E k \in 1..Len(topology.clusters) : gameId \in topology.clusters[k].gameIds
    \/ \E k \in 1..Len(topology.persistenceDiagram) :
          topology.persistenceDiagram[k].feature.gameId = gameId
    \/ \E k \in 1..Len(topology.snapshots) :
          \E j \in 1..Len(topology.snapshots[k].opportunities) :
              topology.snapshots[k].opportunities[j].gameId = gameId

\* C7: after removeOpportunity(gameId) neither the active opportunities, the
\* edge history, the active features, the clusters, the persistence diagram
\* nor the snapshot window refers to gameId, and the portfolio aggregate is
\* the one of the remaining opportunities.
C7_RemovePurges ==
    lastOp.name = "removeOpportunity" =>
        /\ ~RefersTo(lastOp.gameId)
        /\ engine.portfolioGeometry = UpdatePortfolioGeometry(engine.opportunities)

\* C8: while the engine has no active opportunity the attractor it exposes is
\* Unstable Chaos with strength 0.
C8_EmptyIsChaos ==
    Len(engine.opportunities) = 0 =>
        /\ engine.currentAttractor = "UNSTABLE_CHAOS"
        /\ engine.attractorStrength = 0

\* the match fraction of the portfolio channels for the attractor `key`
Fraction(key) ==
    MatchAttractor(engine.portfolioGeometry.channels, ATTRACTOR_STATES[key].conditions)

\* C9: the classifier selects the attractor with the highest match fraction,
\* the earliest declared one among those that share it; the strength is that
\* fraction and lies in [0, 1].
C9_HighestFractionWins ==
    engine.portfolioGeometry # NoPortfolio =>
        \E i \in 1..Len(AttractorOrder) :
            /\ engine.currentAttractor = AttractorOrder[i]
            /\ engine.attractorStrength = Fraction(AttractorOrder[i])
            /\ engine.attractorStrength >= 0
            /\ engine.attractorStrength <= One
            /\ \A j \in 1..Len(AttractorOrder) :
                  /\ Fraction(AttractorOrder[j]) <= Fraction(AttractorOrder[i])
                  /\ j < i => Fraction(AttractorOrder[j]) < Fraction(AttractorOrder[i])

\* two attractors share the highest fraction, above the first declared one,
\* and the earlier of the two is selected
C9_Witness ==
    /\ engine.portfolioGeometry # NoPortfolio
    /\ engine.currentAttractor = "EMERGING_EDGE"
    /\ Fraction("CLOSING_WINDOW") = engine.attractorStrength
    /\ Fraction("STABLE_EDGE") < engine.attractorStrength

\* an update or removeOpportunity that ends with another attractor than it
\* started with has called onAttractorChange, last with the new attractor and
\* first with the previous one
ChangeNotified ==
    (lastOp'.name \in {"update", "removeOpportunity"}
        /\ engine'.currentAttractor # engine.currentAttractor) =>
        /\ Len(engine'.changes) > 0
        /\ engine'.changes[Len(engine'.changes)].to = engine'.currentAttractor
        /\ engine'.changes[1].from = engine.currentAttractor

\* C10: whenever the current attractor differs between the end of one
\* operation and the end of the next (update or removeOpportunity, the move
\* to Unstable Chaos on the last removal included), onAttractorChange is
\* called with the new and the previous attractor.
C10_ChangeIsNotified == [][ChangeNotified]_vars

\* an update calls onAttractorChange only when it ends with another attractor
\* than the one the previous operation ended with
NotifiedOnlyOnChange ==
    (lastOp'.name = "update" /\ updateCount' = updateCount + 1
        /\ Len(engine'.changes) > 0) =>
        engine'.currentAttractor # engine.currentAttractor

\* C11: during one update a change notification is emitted only if the
\* attractor at the end of the tick differs from the attractor at the end of
\* the previous tick; a tick whose per-opportunity steps pass through another
\* attractor and return emits none.
C11_NotifiedOnlyOnChange == [][NotifiedOnlyOnChange]_vars

\* the recorded decisions that executed less than 60 seconds before `now`
RecentExecutions ==
    Cardinality({ i \in 1..Len(decisionHistory) :
                    decisionHistory[i].execute /\ now - decisionHistory[i].timestamp < 60000 })

\* the finalized decision carries the cooldown reason
CoolingDown ==
    \E k \in 1..Len(currentDecision.reasons) :
        currentDecision.reasons[k] = "Cooling down - multiple recent executions"

C13_ChannelsInUnitRange ==
    lastOp.name = "processOpportunity" =>
        LET channels == engine.opportunities[1].channels
        IN /\ \A c \in EDGE..MOMENTUM : 0 <= channels[c] /\ channels[c] <= One
           /\ lastOp.context.previousEdge = <<>> => channels[MOMENTUM] = 500

\* C14: with modelProb, impliedProb, confidence, minutesToClose,
\* correlatedExposure or marketVolatility missing, undefined or NaN, the stored
\* channels, the portfolio means and the allocation fractions are finite.
C14_FiniteOnMissingInput ==
    lastOp.name = "processOpportunity" =>
        /\ \A c \in EDGE..MOMENTUM : IsFinite(engine.opportunities[1].channels[c])
        /\ \A c \in EDGE..MOMENTUM : IsFinite(engine.portfolioGeometry.channels[c])
        /\ \A k \in 1..Len(EngineAllocationsJs(engine)) :
               IsFinite(EngineAllocationsJs(engine)[k].fraction)

\* the points the tracker holds: the diagram and the active features
TrackedPoints ==
    { topology.persistenceDiagram[k] : k \in 1..Len(topology.persistenceDiagram) }
        \cup { topology.activeFeatures[k] : k \in 1..Len(topology.activeFeatures) }

VanishedAfterOneTick(gameId) ==
    /\ Len(topology.snapshots) = 2
    /\ MapHas(topology.snapshots[1].edges, gameId)
    /\ MapGet(topology.snapshots[1].edges, gameId) >= edgeThreshold
    /\ MapGet(topology.snapshots[1].edges, gameId) > 50
    /\ \/ ~MapHas(topology.snapshots[2].edges, gameId)
       \/ MapGet(topology.snapshots[2].edges, gameId) < edgeThreshold

\* C16: a game whose edge is at or above edgeThreshold in exactly one snapshot,
\* with an initial edge above 0.05, and below it or absent in the next one has
\* a vanishing_edge hole in the hole list after that next snapshot.
C16_VanishingEdgeHole ==
    \A gameId \in Games :
        VanishedAfterOneTick(gameId) =>
            \E k \in 1..Len(topology.holes) :
                /\ topology.holes[k].type = "vanishing_edge"
                /\ gameId \in topology.holes[k].games

\* the pairs i < j of opportunities of a snapshot whose own edges have
\* opposite sign and are both above 0.02 in magnitude
OpposingPairs(snapshot) ==
    LET opps == snapshot.opportunities
        Edge(k) == opps[k].modelProb - opps[k].impliedProb
    IN { pair \in (1..Len(opps)) \X (1..Len(opps)) :
           /\ pair[1] < pair[2]
           /\ Edge(pair[1]) * Edge(pair[2]) < 0
           /\ Abs(Edge(pair[1])) > 20
           /\ Abs(Edge(pair[2])) > 20 }

\* C17: after a snapshot every unordered pair of its opportunities with edges
\* of opposite sign, both above 0.02 in magnitude, has exactly one
\* opposing_edges hole, also when the two opportunities carry the same gameId.
C17_OneHolePerOpposingPair ==
    Len(topology.snapshots) > 0 =>
        LET snapshot == topology.snapshots[Len(topology.snapshots)]
            opps == snapshot.opportunities
            opposing == { k \in 1..Len(topology.holes) :
                            topology.holes[k].type = "opposing_edges" }
        IN /\ Cardinality(opposing) = Cardinality(OpposingPairs(snapshot))
           /\ \A pair \in OpposingPairs(snapshot) :
                 \E k \in opposing :
                     topology.holes[k].games = {opps[pair[1]].gameId, opps[pair[2]].gameId}

\* the number of losses at the end of a sequence of results
RECURSIVE TrailingLosses(_)
TrailingLosses(results) ==
    IF results = <<>> \/ results[Len(results)] THEN 0
    ELSE 1 + TrailingLosses(SubSeq(results, 1, Len(results) - 1))

\* 2^n
RECURSIVE TwoToThe(_)
TwoToThe(n) == IF n = 0 THEN 1 ELSE 2 * TwoToThe(n - 1)

\* C19: after k consecutive recorded losses with no win in between, the streak
\* adjustment of a base fraction returns base * streakReductionFactor^k, with
\* factor 0.5: base / 2^k; after three losses that is base / 8, strictly
\* smaller than base.
C19_StreakReduction ==
    lastOp.name = "applyStreakAdjustment" =>
        LET k == TrailingLosses(risk.results)
        IN /\ lastOp.adjusted * TwoToThe(k) = lastOp.fraction
           /\ k = 3 => lastOp.adjusted < lastOp.fraction

\* the adjustment was asked after exactly three losses that follow a win
C19_Witness ==
    /\ lastOp.name = "applyStreakAdjustment"
    /\ risk.results = << TRUE, FALSE, FALSE, FALSE >>
    /\ lastOp.fraction = 51200
    /\ lastOp.adjusted = 6400

\* the active features and the diagram points of a game
FeaturesOf(t, gameId) == SelectSeq(t.activeFeatures, LAMBDA p : p.feature.gameId = gameId)
PointsOf(t, gameId) == SelectSeq(t.persistenceDiagram, LAMBDA p : p.feature.gameId = gameId)

\* what one addSnapshot does to the feature of a game the snapshot contains
TracksFeature(gameId) ==
    LET snapshot == topology'.snapshots[Len(topology'.snapshots)]
        normalizedTime ==
            IF snapshot.timestamp > topology'.snapshots[1].timestamp THEN One ELSE 0
        edge == MapGet(snapshot.edges, gameId)
        before == FeaturesOf(topology, gameId)
        after == FeaturesOf(topology', gameId)
    IN /\ Len(after) <= 1
       /\ Len(after) = 1 <=> edge >= edgeThreshold
       /\ Len(before) = 0 /\ Len(after) = 1 =>
             /\ after[1].birth = normalizedTime
             /\ after[1].death = Infinity
             /\ PointsOf(topology', gameId) = PointsOf(topology, gameId)
       /\ Len(before) = 1 /\ Len(after) = 1 =>
             /\ after[1] = before[1]
             /\ PointsOf(topology', gameId) = PointsOf(topology, gameId)
       /\ Len(before) = 1 /\ Len(after) = 0 =>
             LET point == [before[1] EXCEPT !.death = normalizedTime]
             IN PointsOf(topology', gameId) =
                    IF normalizedTime - before[1].birth >= minPersistence
                    THEN Append(PointsOf(topology, gameId), point)
                    ELSE PointsOf(topology, gameId)

AddSnapshotTracksFeatures ==
    (lastOp'.name = "update" /\ updateCount' = updateCount + 1) =>
        \A gameId \in Games :
            MapHas(topology'.snapshots[Len(topology'.snapshots)].edges, gameId) =>
                TracksFeature(gameId)

\* C20: per gameId the tracker keeps at most one active feature, and after
\* every addSnapshot that contains the game the feature is active iff the
\* game's edge in that snapshot is >= edgeThreshold: it is created with
\* birth = normalizedTime, its birth is unchanged while the edge stays at or
\* above the threshold, and on the first snapshot below it the feature is
\* finalized with death = normalizedTime, leaves the active set and enters the
\* persistence diagram only if its persistence >= minPersistence.
C20_FeatureLifecycle == [][AddSnapshotTracksFeatures]_vars

\* a feature of g1 born at 0 was finalized at 1 and is in the diagram
C20_Witness ==
    /\ lastOp.name = "update"
    /\ updateCount = 2
    /\ MapHas(topology.snapshots[Len(topology.snapshots)].edges, "g1")
    /\ MapGet(topology.snapshots[Len(topology.snapshots)].edges, "g1") < edgeThreshold
    /\ FeaturesOf(topology, "g1") = <<>>
    /\ Len(PointsOf(topology, "g1")) = 1
    /\ PointsOf(topology, "g1")[1].birth = 0
    /\ PointsOf(topology, "g1")[1].death = One

\* _generateDecision has run on a geometric state whose attractor is the key
\* of an EXECUTE entry of ATTRACTOR_STATES
GeneratedForExecute ==
    /\ lastOp.name = "generateDecision"
    /\ lastOp.geomState.attractor \in DOMAIN ATTRACTOR_STATES
    /\ ATTRACTOR_STATES[lastOp.geomState.attractor].action = "EXECUTE"

\* the topology holds a hole of significance above 0.5
SignificantHole ==
    \E k \in 1..Len(topology.holes) : topology.holes[k].significance > 500

\* the stages of one tick in their order, each on the result of the one before
TierOfStrength ==
    IF lastOp.geomState.attractorStrength < config.minSignalStrength THEN "WEAK"
    ELSE IF lastOp.geomState.attractorStrength > 800 THEN "STRONG"
    ELSE "MODERATE"
TierAfterHoles ==
    IF SignificantHole /\ TierOfStrength = "MODERATE" THEN "STRONG" ELSE TierOfStrength
ConfidenceAfterStability ==
    IF GetStabilityScore(topology) > 700
    THEN Min(One, (lastOp.geomState.confidence * 12) \div 10)
    ELSE lastOp.geomState.confidence
ExecuteAfterComplexity ==
    /\ TierOfStrength # "WEAK"
    /\ ~(GetComplexityScore(topology) > 700 /\ TierAfterHoles # "STRONG")
TypeAfterComplexity ==
    IF TierOfStrength = "WEAK" THEN "WAIT"
    ELSE IF ExecuteAfterComplexity THEN "EXECUTE" ELSE "PREPARE"
SizedAllocations ==
    IF TypeAfterComplexity = "WAIT" THEN 0 ELSE Len(lastOp.geomState.allocations)
ExecuteAfterSizing == ExecuteAfterComplexity /\ SizedAllocations > 0
TypeAfterSizing ==
    IF ExecuteAfterComplexity /\ SizedAllocations = 0 THEN "WAIT" ELSE TypeAfterComplexity
ConfidenceAfterCooldown ==
    IF Cardinality({ k \in 1..Len(decisionHistory) :
                       decisionHistory[k].execute /\ now - decisionHistory[k].timestamp < 60000 }) > 3
    THEN (ConfidenceAfterStability * 8) \div 10
    ELSE ConfidenceAfterStability
ExecuteAtEnd == ExecuteAfterSizing /\ ~(ConfidenceAfterCooldown < 400)
TypeAtEnd ==
    IF ExecuteAfterSizing /\ ConfidenceAfterCooldown < 400 THEN "PREPARE" ELSE TypeAfterSizing

TierOfGeometry ==
    IF lastOp.geomState.attractor \in DOMAIN ATTRACTOR_STATES THEN TierOfStrength
    ELSE "NOISE"

\* the tier one above
OneTierUp(tier) ==
    CASE tier = "NOISE" -> "WEAK"
      [] tier = "WEAK" -> "MODERATE"
      [] tier = "MODERATE" -> "STRONG"
      [] tier = "STRONG" -> "STRONG"

\* C22: with a hole of significance > 0.5 in the topology of the tick the
\* signal strength is one tier above the tier the attractor strength produced
\* (STRONG stays STRONG); with no such hole the tier is unchanged.
C22_HoleRaisesOneTier ==
    lastOp.name = "generateDecision" =>
        currentDecision.signalStrength =
            IF SignificantHole THEN OneTierUp(TierOfGeometry) ELSE TierOfGeometry

\* the decision of an update is assembled from the engine as the processing
\* of all opportunities left it and from the topology as the snapshot of this
\* tick left it, and enters the history after it is finalized
AssembledAfterStages ==
    (lastOp'.name = "update" /\ updateCount' = updateCount + 1) =>
        LET geomState == QueryGeometricState(engine')
            snapshot == topology'.snapshots[Len(topology'.snapshots)]
            recent == { k \in 1..Len(decisionHistory) :
                          decisionHistory[k].execute
                              /\ now - decisionHistory[k].timestamp < 60000 }
        IN /\ snapshot.opportunities = lastOp'.opportunities
           /\ snapshot.timestamp = now
           /\ currentDecision'.topology.holes = Len(topology'.holes)
           /\ currentDecision'.topology.complexity = GetComplexityScore(topology')
           /\ currentDecision'.topology.stability = GetStabilityScore(topology')
           /\ currentDecision'.topology.betti = CalculateBettiNumbers(topology')
           /\ currentDecision'.attractor = geomState.attractor
           /\ currentDecision'.attractorStrength = geomState.attractorStrength
           /\ currentDecision'.crystallization = geomState.crystallization
           /\ \A k \in 1..Len(currentDecision'.allocations) :
                 \E a \in 1..Len(geomState.allocations) :
                     geomState.allocations[a].gameId = currentDecision'.allocations[k].gameId
           /\ (\E k \in 1..Len(currentDecision'.reasons) :
                  currentDecision'.reasons[k] = "Cooling down - multiple recent executions")
                 <=> Cardinality(recent) > 3
           /\ Len(decisionHistory') = Min(Len(decisionHistory) + 1, maxHistoryLength)
           /\ decisionHistory'[Len(decisionHistory')].timestamp = currentDecision'.timestamp
           /\ decisionHistory'[Len(decisionHistory')].execute = currentDecision'.execute
           /\ decisionHistory'[Len(decisionHistory')].type = currentDecision'.type

MomentumFromPrecedingTick(geom) ==
    LET n == Len(topology.snapshots)
        edge == geom.opportunity.modelProb - geom.opportunity.impliedProb
    IN /\ (n >= 2 /\ MapHas(topology.snapshots[n - 1].edges, geom.gameId)) =>
              geom.channels[MOMENTUM] =
                  Clamp(500 + (edge - MapGet(topology.snapshots[n - 1].edges, geom.gameId)) * 10,
                        0, One)
       /\ (\A k \in 1..(n - 1) : ~MapHas(topology.snapshots[k].edges, geom.gameId)) =>
              geom.channels[MOMENTUM] = 500

\* C24: for a game updated on consecutive ticks the Momentum channel at tick
\* n >= 2 comes from the edge at tick n minus the edge recorded at tick n-1,
\* and it is the neutral 0.5 only at the game's first tick.
C24_MomentumFromPrecedingTick ==
    AfterUpdate =>
        \A k \in 1..Len(engine.opportunities) :
            (\E i \in 1..Len(lastOp.opportunities) :
                 lastOp.opportunities[i].gameId = engine.opportunities[k].gameId)
                => MomentumFromPrecedingTick(engine.opportunities[k])

\* C25: the per-game edge history is trimmed to a fixed maximum length on
\* every write: at any tick rate no game's history grows beyond the largest
\* length the engine keeps for a history (the snapshot window's)
C25_EdgeHistoryBounded ==
    \A gameId \in DOMAIN engine.edgeHistory :
        Len(engine.edgeHistory[gameId]) <= maxSnapshots

\* the decision was sized from allocations whose fractions sum to more than
\* maxTotalExposure
OverExposed ==
    /\ lastOp.name = "generateDecision"
    /\ currentDecision.type \notin { "PASS", "WAIT" }
    /\ SumFractions(lastOp.geomState.allocations) > config.maxTotalExposure

RECURSIVE FedPerMillisecond(_)
FedPerMillisecond(n) ==
    IF n = 0 THEN NewTopology
    ELSE AddSnapshot(FedPerMillisecond(n - 1), topology.snapshots[n].opportunities, n)

\* C27: births and deaths depend on the sequence of snapshots only, not on
\* the wall clock: a tracker fed the same sequence of opportunity sets at
\* other timestamps has the same active features, persistence diagram and
\* stability score
C27_ClockIndependent ==
    LET other == FedPerMillisecond(Len(topology.snapshots))
    IN /\ topology.activeFeatures = other.activeFeatures
       /\ topology.persistenceDiagram = other.persistenceDiagram
       /\ GetStabilityScore(topology) = GetStabilityScore(other)

\* one opportunity was processed on a new engine with edge >= 0.02,
\* confidence >= 0.55, less than 5 minutes to close, correlation <= 0.6,
\* efficiency >= 0.2 and neutral momentum
ClosingOpportunity ==
    /\ lastOp.name = "processOpportunity"
    /\ Len(engine.opportunities) = 1
    /\ LET opp == lastOp.opportunities[1]
       IN /\ opp.modelProb - opp.impliedProb >= 20
          /\ opp.confidence >= 550
    /\ lastOp.context.minutesToClose >= 0
    /\ lastOp.context.minutesToClose < 5
    /\ lastOp.context.correlatedExposure <= 600
    /\ lastOp.context.marketVolatility >= 200
    /\ engine.opportunities[1].channels[MOMENTUM] = 500

\* C28: the time conditions read the minutes to close: with m minutes to
\* close timeMax 5 holds when m <= 5 and timeMin 5 holds exactly when m >= 5,
\* so the conditions of Closing Window all hold of a closing opportunity
C28_TimeConditionsOnMinutes ==
    /\ (lastOp.name = "processOpportunity" /\ Len(engine.opportunities) = 1) =>
           LET channels == engine.portfolioGeometry.channels
               m == lastOp.context.minutesToClose
           IN /\ m <= 5 => ConditionHolds(channels, "timeMax", 5)
              /\ ConditionHolds(channels, "timeMin", 5) <=> m >= 5
    /\ ClosingOpportunity =>
           MatchAttractor(engine.portfolioGeometry.channels,
                          ATTRACTOR_STATES.CLOSING_WINDOW.conditions) = One

\* the gameIds of the engine's active set
ActiveGames(e) == { e.opportunities[k].gameId : k \in 1..Len(e.opportunities) }

\* the gameIds an update lists
ListedGames(op) == { op.opportunities[i].gameId : i \in 1..Len(op.opportunities) }

\* the portfolio aggregate counts every opportunity of the active set and its
\* channels are their means
AggregatesAll(e) ==
    Len(e.opportunities) > 0 =>
        /\ e.portfolioGeometry.opportunityCount = Len(e.opportunities)
        /\ \A c \in 1..6 :
               e.portfolioGeometry.channels[c] =
                   SumSeq([k \in 1..Len(e.opportunities) |-> e.opportunities[k].channels[c]])
                       \div Len(e.opportunities)
        /\ e.currentAttractor # NoAttractor =>
               { EngineAllocations(e)[k].gameId : k \in 1..Len(EngineAllocations(e)) }
                   = ActiveGames(e)

\* a step keeps a stale opportunity: an update that does not list a game of
\* the active set leaves its geometry as it was, in an active set without
\* repeated games whose aggregate counts it; a game leaves the active set by
\* removeOpportunity or clear only
KeepsStale ==
    /\ updateCount' = updateCount + 1 =>
           /\ \A k \in 1..Len(engine.opportunities) :
                  engine.opportunities[k].gameId \notin ListedGames(lastOp') =>
                      \E j \in 1..Len(engine'.opportunities) :
                          engine'.opportunities[j] = engine.opportunities[k]
           /\ ActiveGames(engine') = ActiveGames(engine) \cup ListedGames(lastOp')
           /\ Cardinality(ActiveGames(engine')) = Len(engine'.opportunities)
           /\ AggregatesAll(engine')
    /\ ~(ActiveGames(engine) \subseteq ActiveGames(engine')) =>
           \/ lastOp'.name = "clear"
           \/ /\ lastOp'.name = "removeOpportunity"
              /\ ActiveGames(engine) \ ActiveGames(engine') = { lastOp'.gameId }

\* C29: an opportunity stays in the engine's active set through every tick
\* that omits its gameId and keeps contributing its last channels to the
\* aggregate, until removeOpportunity or clear; an opportunity with a gameId
\* of the active set replaces the one held
C29_StaleOpportunityKept == [][KeepsStale]_vars

\* an update listed g1 only while g2, processed before, is still in the
\* active set and in the aggregate
C29_Witness ==
    /\ lastOp.name = "update"
    /\ ListedGames(lastOp) = { "g1" }
    /\ ActiveGames(engine) = { "g1", "g2" }
    /\ engine.portfolioGeometry.opportunityCount = 2

\* the snapshot a step adds contains the game
AddsSnapshotWith(gameId) ==
    /\ updateCount' = updateCount + 1
    /\ MapHas(topology'.snapshots[Len(topology'.snapshots)].edges, gameId)

\* a step leaves the active feature of a game alone unless it adds a snapshot
\* that contains the game, or clears: the feature stays in the active set
\* with no death, it is counted in the stability score and it is listed alive
\* by getMostPersistentEdges
KeepsActiveFeature ==
    \A k \in 1..Len(topology.activeFeatures) :
        LET point == topology.activeFeatures[k]
            gameId == point.feature.gameId
        IN /\ point.death = Infinity
           /\ (lastOp'.name # "clear" /\ ~AddsSnapshotWith(gameId)) =>
                  /\ FeaturesOf(topology', gameId) = << point >>
                  /\ PointsOf(topology', gameId) = PointsOf(topology, gameId)
                  /\ GetStabilityScore(topology') * Len(topology'.activeFeatures) <=
                         (One - point.birth)
                         + One * Cardinality({ j \in 1..Len(topology'.activeFeatures) :
                                                 topology'.activeFeatures[j] # point })
                  /\ GetStabilityScore(topology') * Len(topology'.activeFeatures)
                         > (One - point.birth) - Len(topology'.activeFeatures)
                  /\ \E j \in 1..Len(GetMostPersistentEdges(topology', 5)) :
                         /\ GetMostPersistentEdges(topology', 5)[j].gameId = gameId
                         /\ GetMostPersistentEdges(topology', 5)[j].isAlive
           /\ FeaturesOf(topology', gameId) # << point >> =>
                  \/ lastOp'.name = "clear"
                  \/ /\ AddsSnapshotWith(gameId)
                     /\ MapGet(topology'.snapshots[Len(topology'.snapshots)].edges, gameId)
                            < edgeThreshold

\* C30: an active feature is finalized only by a snapshot that contains its
\* gameId with an edge below edgeThreshold, or by clear(): while the game is
\* absent from the snapshots the feature stays active without a death and
\* counts in the stability score and in getMostPersistentEdges
C30_AbsentGameStaysActive == [][KeepsActiveFeature]_vars

\* the last snapshot does not contain g2, whose feature is still active and
\* listed alive
C30_Witness ==
    /\ lastOp.name = "update"
    /\ ~MapHas(topology.snapshots[Len(topology.snapshots)].edges, "g2")
    /\ Len(FeaturesOf(topology, "g2")) = 1
    /\ \E j \in 1..Len(GetMostPersistentEdges(topology, 5)) :
           /\ GetMostPersistentEdges(topology, 5)[j].gameId = "g2"
           /\ GetMostPersistentEdges(topology, 5)[j].isAlive
====
